---- MODULE Spec2Model ----
(***************************************************************************)
(* A model of the OCSF -> SQLAlchemy pipeline: the raw schema (loader      *)
(* output), the inheritance resolver, the schema analyzer and the object   *)
(* filter.  Python dicts are functions plus, where iteration order is      *)
(* observable, the sequence of their keys; Python None and the empty       *)
(* string (both falsy) are the empty string.                               *)
(***************************************************************************)
EXTENDS Integers, Sequences, FiniteSets, TLC

VARIABLES
    schema,     \* OcsfSchema held by the resolver (objects, events, dictionary)
    phase,      \* position of the pipeline
    walk,       \* locals of the running _build_inheritance_chain_* call
    resolved,   \* value returned by the last resolve_object / resolve_event
    analyzed,   \* AnalyzedSchema returned by analyze(), held by the ObjectFilter
    config,     \* FilterConfig of the last filter() call
    filtered,   \* AnalyzedSchema returned by the last filter() call
    result,     \* FilterResult returned by the last filter() call
    error,      \* exception raised by the last filter() call, if any
    message,    \* the message of that exception
    generator,  \* CodeGenerator: the naming config and the schema it was given
    files,      \* list of GeneratedFile returned by generate_all()
    repo,       \* the schema directory SchemaLoader reads
    loader,     \* locals of the running SchemaLoader.load() call
    calls       \* how often analyze() and filter() were called on the analyzer
                \* and on the ObjectFilter

vars == <<schema, phase, walk, resolved, analyzed, config, filtered, result, error,
          message, generator, files, repo, loader, calls>>

----------------------------------------------------------------------------
(* Bounds and universes *)

\* largest max_depth a filter call is given
MaxDepth == 2

\* how many calls are made on one ObjectFilter or one SchemaAnalyzer
MaxCalls == 2

None == ""

ObjNames == {"a", "b", "c"}
EvNames == {"e", "f"}
\* a name that no schema defines
Ghost == "ghost"
AttrNames == {"x", "y", "X"}
\* iteration order of attribute dicts (JSON key order)
AttrSeq == <<"x", "y", "X">>

----------------------------------------------------------------------------
(* Python helpers *)

\* a or b
Or(a, b) == IF a # None THEN a ELSE b

\* x in list
Contains(s, x) == \E i \in 1..Len(s) : s[i] = x

ToSet(s) == {s[i] : i \in 1..Len(s)}

\* index of the first occurrence of x in s, 0 when absent
IndexOf(s, x) == IF Contains(s, x) THEN CHOOSE i \in 1..Len(s) : s[i] = x /\ \A j \in 1..(i-1) : s[j] # x ELSE 0

NoDup(s) == \A i, j \in 1..Len(s) : i # j => s[i] # s[j]

\* every iteration order of a set
Perms(S) == {s \in [1..Cardinality(S) -> S] : \A i, j \in 1..Cardinality(S) : i # j => s[i] # s[j]}

\* {**f, **g}
Override(f, g) == [k \in (DOMAIN f) \cup (DOMAIN g) |-> IF k \in DOMAIN g THEN g[k] ELSE f[k]]

\* reversed(s)
Reverse(s) == [i \in 1..Len(s) |-> s[Len(s) + 1 - i]]

\* dict.get(name): the key when present, None otherwise
Get(d, name) == IF name \in DOMAIN d THEN name ELSE None

RECURSIVE Concat(_)
\* the concatenation of a sequence of sequences
Concat(ss) == IF ss = <<>> THEN <<>> ELSE Head(ss) \o Concat(Tail(ss))

\* the keys of an attribute dict, in iteration order
AttrKeys(attrs) == SelectSeq(AttrSeq, LAMBDA n : n \in DOMAIN attrs)

EmptyDict == [k \in {} |-> None]

----------------------------------------------------------------------------
(* Type mapper *)

\* the keys of TypeMapper.TYPE_MAPPINGS
TYPE_MAPPINGS == {"string_t", "integer_t", "long_t", "float_t", "boolean_t", "timestamp_t",
                  "datetime_t", "ip_t", "mac_t", "subnet_t", "port_t", "hostname_t", "email_t",
                  "url_t", "json_t", "uuid_t", "path_t", "file_hash_t", "bytestring_t"}

\* TYPE_MAPPINGS[t].sqlalchemy_type, DEFAULT_MAPPING for unknown names
SqlAlchemyType(ocsf_type) ==
    CASE ocsf_type \in {"integer_t", "port_t"} -> "Integer"
      [] ocsf_type \in {"long_t", "timestamp_t"} -> "BigInteger"
      [] ocsf_type = "float_t" -> "Float"
      [] ocsf_type = "boolean_t" -> "Boolean"
      [] ocsf_type = "datetime_t" -> "DateTime"
      [] ocsf_type = "ip_t" -> "INET"
      [] ocsf_type = "subnet_t" -> "CIDR"
      [] ocsf_type \in {"mac_t", "hostname_t", "email_t", "file_hash_t"} -> "String"
      [] ocsf_type = "uuid_t" -> "Uuid"
      [] ocsf_type = "bytestring_t" -> "LargeBinary"
      [] OTHER -> "Text"

\* TYPE_MAPPINGS[t].max_length, 0 for None
MaxLengthOf(ocsf_type) ==
    CASE ocsf_type = "mac_t" -> 17
      [] ocsf_type = "hostname_t" -> 253
      [] ocsf_type = "email_t" -> 254
      [] ocsf_type = "file_hash_t" -> 128
      [] OTHER -> 0

\* TypeMapper.get_sqlalchemy_type: get_mapping(t).get_column_definition()
get_sqlalchemy_type(ocsf_type) ==
    IF MaxLengthOf(ocsf_type) # 0
    THEN SqlAlchemyType(ocsf_type) \o "(" \o ToString(MaxLengthOf(ocsf_type)) \o ")"
    ELSE SqlAlchemyType(ocsf_type)

\* str.endswith("_t")
EndsWithT(t) == Len(t) >= 2 /\ SubSeq(t, Len(t) - 1, Len(t)) = "_t"

\* the closed-world test: every name outside the mapping table is an object
IsObjectTypeClosedWorld(ocsf_type) == ocsf_type \notin TYPE_MAPPINGS

is_object_type(ocsf_type) == ~EndsWithT(ocsf_type) /\ ocsf_type \notin TYPE_MAPPINGS

----------------------------------------------------------------------------
(* Naming convention *)

UpperChars == "ABCDEFGHIJKLMNOPQRSTUVWXYZ"
LowerChars == "abcdefghijklmnopqrstuvwxyz"
DigitChars == "0123456789"

Char(s, i) == SubSeq(s, i, i)

InChars(chars, c) == \E i \in 1..Len(chars) : Char(chars, i) = c

IsUpper(c) == InChars(UpperChars, c)

IsLower(c) == InChars(LowerChars, c)

\* str.lower() on one character
LowerChar(c) ==
    IF IsUpper(c) THEN Char(LowerChars, CHOOSE i \in 1..Len(UpperChars) : Char(UpperChars, i) = c)
    ELSE c

RECURSIVE ReplaceSeparators(_, _)
\* name.replace("-", "_").replace(" ", "_"), from position i on
ReplaceSeparators(s, i) ==
    IF i > Len(s) THEN ""
    ELSE (IF Char(s, i) \in {"-", " "} THEN "_" ELSE Char(s, i)) \o ReplaceSeparators(s, i + 1)

RECURSIVE SplitAcronyms(_, _)
\* re.sub(r"([A-Z]+)([A-Z][a-z])", r"\1_\2", name), from position i on
SplitAcronyms(s, i) ==
    IF i > Len(s) THEN ""
    ELSE (IF i > 1 /\ i < Len(s) /\ IsUpper(Char(s, i - 1)) /\ IsUpper(Char(s, i))
              /\ IsLower(Char(s, i + 1))
          THEN "_" ELSE "") \o Char(s, i) \o SplitAcronyms(s, i + 1)

RECURSIVE SplitCamel(_, _)
\* re.sub(r"([a-z\d])([A-Z])", r"\1_\2", name), from position i on
SplitCamel(s, i) ==
    IF i > Len(s) THEN ""
    ELSE (IF i > 1 /\ (IsLower(Char(s, i - 1)) \/ InChars(DigitChars, Char(s, i - 1)))
              /\ IsUpper(Char(s, i))
          THEN "_" ELSE "") \o Char(s, i) \o SplitCamel(s, i + 1)

RECURSIVE Lower(_, _)
\* name.lower(), from position i on
Lower(s, i) == IF i > Len(s) THEN "" ELSE LowerChar(Char(s, i)) \o Lower(s, i + 1)

RECURSIVE CollapseUnderscores(_, _)
\* re.sub(r"_+", "_", result), from position i on
CollapseUnderscores(s, i) ==
    IF i > Len(s) THEN ""
    ELSE (IF i > 1 /\ Char(s, i) = "_" /\ Char(s, i - 1) = "_" THEN "" ELSE Char(s, i))
             \o CollapseUnderscores(s, i + 1)

RECURSIVE StripUnderscores(_)
\* result.strip("_")
StripUnderscores(s) ==
    IF s = "" THEN s
    ELSE IF Char(s, 1) = "_" THEN StripUnderscores(SubSeq(s, 2, Len(s)))
    ELSE IF Char(s, Len(s)) = "_" THEN StripUnderscores(SubSeq(s, 1, Len(s) - 1))
    ELSE s

to_snake_case(name) ==
    IF name = "" THEN name
    ELSE StripUnderscores(CollapseUnderscores(
             Lower(SplitCamel(SplitAcronyms(ReplaceSeparators(name, 1), 1), 1), 1), 1))

\* NamingConfig() with its defaults
DefaultNamingConfig ==
    [table_prefix |-> "ocsf_", table_suffix |-> "", class_prefix |-> "Ocsf", class_suffix |-> ""]

\* the NamingConfig values a caller passes: the defaults, and --table-prefix /
\* --class-prefix given
NamingConfigs ==
    {DefaultNamingConfig,
     [table_prefix |-> "t_", table_suffix |-> "", class_prefix |-> "T", class_suffix |-> ""]}

\* str.upper on one character
UpperChar(c) ==
    IF IsLower(c)
    THEN Char(UpperChars, CHOOSE i \in 1..Len(LowerChars) : Char(LowerChars, i) = c)
    ELSE c

RECURSIVE Capitalize(_, _, _)
\* "".join(word.capitalize() for word in re.split(r"[_\-\s]+", name) if word);
\* first is TRUE at the first character of a word
Capitalize(s, i, first) ==
    IF i > Len(s) THEN ""
    ELSE IF Char(s, i) \in {"_", "-", " "} THEN Capitalize(s, i + 1, TRUE)
    ELSE (IF first THEN UpperChar(Char(s, i)) ELSE LowerChar(Char(s, i)))
             \o Capitalize(s, i + 1, FALSE)

to_pascal_case(name) == IF name = "" THEN name ELSE Capitalize(name, 1, TRUE)

table_name(naming, name) == naming.table_prefix \o to_snake_case(name) \o naming.table_suffix

class_name(naming, name) == naming.class_prefix \o to_pascal_case(name) \o naming.class_suffix

association_table_name(naming, parent_name, attribute_name) ==
    naming.table_prefix \o to_snake_case(parent_name) \o "_" \o to_snake_case(attribute_name)

\* str.endswith
EndsWith(s, suffix) ==
    Len(s) >= Len(suffix) /\ SubSeq(s, Len(s) - Len(suffix) + 1, Len(s)) = suffix

back_populates_name(parent_name) ==
    LET snake == to_snake_case(parent_name)
    IN  IF EndsWith(snake, "y") THEN SubSeq(snake, 1, Len(snake) - 1) \o "ies"
        ELSE IF EndsWith(snake, "s") \/ EndsWith(snake, "x") \/ EndsWith(snake, "ch")
             THEN snake \o "es"
             ELSE snake \o "s"

column_name(name) == to_snake_case(name)

foreign_key_column(relationship_name) == to_snake_case(relationship_name) \o "_id"

relationship_name(name) == to_snake_case(name)

----------------------------------------------------------------------------
(* Inheritance resolver *)

RECURSIVE ChainLoop(_, _, _)
\* the while loop of _build_inheritance_chain_*: current is the key of the
\* entity under the cursor, None when the lookup failed
ChainLoop(ents, chain, current) ==
    IF current # None /\ ents[current].extends # None
    THEN LET parent_name == ents[current].extends
         IN  IF Contains(chain, parent_name)
             THEN chain
             ELSE ChainLoop(ents, Append(chain, parent_name), Get(ents, parent_name))
    ELSE chain

build_inheritance_chain_object(sch, name) == ChainLoop(sch.objects, <<name>>, Get(sch.objects, name))

build_inheritance_chain_event(sch, name) == ChainLoop(sch.events, <<name>>, Get(sch.events, name))

\* dict_attr = self._dictionary_attrs.get(attr.name, {}), with .get defaults
DictAttr(dictionary, name) ==
    IF name \in DOMAIN dictionary THEN dictionary[name]
    ELSE [type |-> None, is_array |-> FALSE, object_type |-> None,
          caption |-> None, description |-> None]

resolve_attribute(dictionary, attr, source) ==
    LET dict_attr == DictAttr(dictionary, attr.name)
    IN  [name |-> attr.name,
         caption |-> IF attr.caption # attr.name THEN attr.caption
                     ELSE Or(dict_attr.caption, attr.name),
         description |-> Or(attr.description, dict_attr.description),
         ocsf_type |-> Or(attr.type, dict_attr.type),
         requirement |-> attr.requirement,
         is_array |-> attr.is_array \/ dict_attr.is_array,
         is_inherited |-> FALSE,
         source_object |-> source,
         object_type |-> Or(attr.object_type, dict_attr.object_type)]

\* the attributes of one ancestor, resolved and marked inherited
InheritedFrom(ents, dictionary, parent_name) ==
    [n \in DOMAIN ents[parent_name].attributes |->
        [resolve_attribute(dictionary, ents[parent_name].attributes[n], parent_name)
            EXCEPT !.is_inherited = TRUE]]

RECURSIVE CollectInheritedFarthestFirst(_, _, _, _)
\* the collection in which an attribute already collected is kept, so that the
\* farthest ancestor's version stays
CollectInheritedFarthestFirst(ents, dictionary, parents, inherited) ==
    IF parents = <<>> THEN inherited
    ELSE LET parent_name == Head(parents)
             next == IF parent_name \in DOMAIN ents
                     THEN Override(InheritedFrom(ents, dictionary, parent_name), inherited)
                     ELSE inherited
         IN  CollectInheritedFarthestFirst(ents, dictionary, Tail(parents), next)

RECURSIVE CollectInherited(_, _, _, _)
\* for parent_name in reversed(chain[1:]): ... inherited[attr_name] = resolved
CollectInherited(ents, dictionary, parents, inherited) ==
    IF parents = <<>> THEN inherited
    ELSE LET parent_name == Head(parents)
             next == IF parent_name \in DOMAIN ents
                     THEN Override(inherited, InheritedFrom(ents, dictionary, parent_name))
                     ELSE inherited
         IN  CollectInherited(ents, dictionary, Tail(parents), next)

\* own attributes: resolved, is_inherited = False
OwnAttributes(ents, dictionary, name) ==
    [n \in DOMAIN ents[name].attributes |->
        [resolve_attribute(dictionary, ents[name].attributes[n], name) EXCEPT !.is_inherited = FALSE]]

\* the merge with the operands swapped: {**own, **inherited}
MergeInheritedOverOwn(inherited, own) == Override(own, inherited)

\* all_attrs = {**inherited, **own}
MergeAttributes(inherited, own) == Override(inherited, own)

\* the None a resolve_* call returns for an unknown name
NotFound == [name |-> None]

\* resolve_object / resolve_event after the chain is built
ResolveWithChain(ents, dictionary, name, chain) ==
    LET inherited == CollectInherited(ents, dictionary, Reverse(Tail(chain)), EmptyDict)
        own == OwnAttributes(ents, dictionary, name)
    IN  [name |-> name,
         extends |-> ents[name].extends,
         inheritance_chain |-> chain,
         own_attributes |-> own,
         inherited_attributes |-> inherited,
         all_attributes |-> MergeAttributes(inherited, own)]

resolve_object(sch, name) ==
    IF name \notin DOMAIN sch.objects THEN NotFound
    ELSE ResolveWithChain(sch.objects, sch.dictionary, name, build_inheritance_chain_object(sch, name))

resolve_event(sch, name) ==
    IF name \notin DOMAIN sch.events THEN NotFound
    ELSE ResolveWithChain(sch.events, sch.dictionary, name, build_inheritance_chain_event(sch, name))

resolve_all_objects(sch) == [n \in DOMAIN sch.objects |-> resolve_object(sch, n)]

resolve_all_events(sch) == [n \in DOMAIN sch.events |-> resolve_event(sch, n)]

RECURSIVE KahnLoop(_, _, _, _)
\* while queue: node = queue.pop(0); result.append(node); for child in adj[node]: ...
KahnLoop(queue, sorted, in_degree, adj) ==
    IF queue = <<>> THEN sorted
    ELSE LET node == Head(queue)
             kids == IF node \in DOMAIN adj THEN adj[node] ELSE <<>>
             degree == [n \in DOMAIN in_degree |->
                          IF Contains(kids, n) THEN in_degree[n] - 1 ELSE in_degree[n]]
             ready == SelectSeq(kids, LAMBDA child : degree[child] = 0)
         IN  KahnLoop(Tail(queue) \o ready, Append(sorted, node), degree, adj)

\* _topological_sort_objects / _topological_sort_events over one entity dict
TopologicalSortEntities(ents, order) ==
    LET linked(n) == ents[n].extends # None /\ ents[n].extends \in DOMAIN ents
        in_degree == [n \in DOMAIN ents |-> IF linked(n) THEN 1 ELSE 0]
        adj == [p \in DOMAIN ents |-> SelectSeq(order, LAMBDA n : linked(n) /\ ents[n].extends = p)]
        queue == SelectSeq(order, LAMBDA n : in_degree[n] = 0)
    IN  KahnLoop(queue, <<>>, in_degree, adj)

topological_sort_objects(sch) == TopologicalSortEntities(sch.objects, sch.objOrder)

topological_sort_events(sch) == TopologicalSortEntities(sch.events, sch.evOrder)

\* the parent/child/root maps of build_*_inheritance_tree
TreeMaps(ents, order) ==
    LET hasParent == {ents[n].extends : n \in {m \in DOMAIN ents : ents[m].extends # None}}
    IN  [children |-> [p \in hasParent |-> SelectSeq(order, LAMBDA n : ents[n].extends = p)],
         parents |-> [n \in DOMAIN ents |-> ents[n].extends],
         roots |-> SelectSeq(order, LAMBDA n : ents[n].extends = None)]

build_object_inheritance_tree(sch) ==
    LET maps == TreeMaps(sch.objects, sch.objOrder)
    IN  [children |-> maps.children, parents |-> maps.parents, roots |-> maps.roots,
         topological_order |-> topological_sort_objects(sch)]

build_event_inheritance_tree(sch) ==
    LET maps == TreeMaps(sch.events, sch.evOrder)
    IN  [children |-> maps.children, parents |-> maps.parents, roots |-> maps.roots,
         topological_order |-> topological_sort_events(sch)]

----------------------------------------------------------------------------
(* Schema analyzer *)

\* one RelationshipInfo, or nothing, for one attribute
analyze_attribute_relationship(entity_name, attr) ==
    LET target == IF attr.object_type # None THEN attr.object_type
                  ELSE IF attr.ocsf_type # None /\ is_object_type(attr.ocsf_type)
                       THEN attr.ocsf_type
                       ELSE None
    IN  IF target = None THEN <<>>
        ELSE <<[source_entity |-> entity_name,
                attribute_name |-> attr.name,
                target_entity |-> target,
                is_array |-> attr.is_array,
                is_nullable |-> attr.requirement # "required",
                relationship_type |-> IF attr.is_array THEN "association_table" ELSE "foreign_key"]>>

\* the relationships of the entities of one dict, in iteration order
EntityRelationships(ents, order) ==
    Concat([i \in 1..Len(order) |->
        LET keys == AttrKeys(ents[order[i]].all_attributes)
        IN  Concat([j \in 1..Len(keys) |->
                analyze_attribute_relationship(order[i], ents[order[i]].all_attributes[keys[j]])])])

analyze_relationships(objects, objOrder, events, evOrder) ==
    EntityRelationships(objects, objOrder) \o EntityRelationships(events, evOrder)

create_array_info(parent_name, attr) ==
    LET element_type == Or(attr.object_type, Or(attr.ocsf_type, "string_t"))
    IN  [parent_entity |-> parent_name,
         attribute_name |-> attr.name,
         element_type |-> element_type,
         is_primitive |-> ~is_object_type(element_type),
         association_table_name |->
             association_table_name(DefaultNamingConfig, parent_name, attr.name)]

\* the scan runs over own_attributes, so inherited arrays are missed
EntityArraysOwnOnly(ents, order) ==
    Concat([i \in 1..Len(order) |->
        LET own == ents[order[i]].own_attributes
            keys == SelectSeq(AttrKeys(own), LAMBDA n : own[n].is_array)
        IN  [j \in 1..Len(keys) |-> create_array_info(order[i], own[keys[j]])]])

\* the array attributes of the entities of one dict, in iteration order
EntityArrays(ents, order) ==
    Concat([i \in 1..Len(order) |->
        LET all == ents[order[i]].all_attributes
            keys == SelectSeq(AttrKeys(all), LAMBDA n : all[n].is_array)
        IN  [j \in 1..Len(keys) |-> create_array_info(order[i], all[keys[j]])]])

find_array_attributes(objects, objOrder, events, evOrder) ==
    EntityArrays(objects, objOrder) \o EntityArrays(events, evOrder)

analyze(sch) ==
    LET objects == resolve_all_objects(sch)
        events == resolve_all_events(sch)
    IN  [objects |-> objects,
         objOrder |-> sch.objOrder,
         events |-> events,
         evOrder |-> sch.evOrder,
         object_tree |-> build_object_inheritance_tree(sch),
         event_tree |-> build_event_inheritance_tree(sch),
         relationships |-> analyze_relationships(objects, sch.objOrder, events, sch.evOrder),
         array_attributes |-> find_array_attributes(objects, sch.objOrder, events, sch.evOrder)]

\* SchemaAnalyzer.get_entity_columns: the entity is resolved afresh
get_entity_columns(sch, entity_name, is_event) ==
    LET entity == IF is_event THEN resolve_event(sch, entity_name)
                  ELSE resolve_object(sch, entity_name)
    IN  IF entity.name = None THEN <<>>
        ELSE LET own == entity.own_attributes
                 keys == SelectSeq(AttrKeys(own), LAMBDA n : ~own[n].is_array)
             IN  [i \in 1..Len(keys) |->
                    LET attr == own[keys[i]]
                    IN  IF attr.object_type # None \/ is_object_type(Or(attr.ocsf_type, ""))
                        THEN [name |-> attr.name \o "_id",
                              type |-> "Integer",
                              nullable |-> attr.requirement # "required",
                              is_foreign_key |-> TRUE,
                              references |-> Or(attr.object_type, attr.ocsf_type)]
                        ELSE [name |-> attr.name,
                              type |-> get_sqlalchemy_type(Or(attr.ocsf_type, "string_t")),
                              nullable |-> attr.requirement # "required",
                              is_foreign_key |-> FALSE,
                              references |-> None]]

----------------------------------------------------------------------------
(* Code generator: column lists *)

PYTHON_RESERVED ==
    {"class", "type", "id", "from", "import", "return", "def", "if", "else", "elif", "for",
     "while", "try", "except", "finally", "with", "as", "pass", "break", "continue", "and",
     "or", "not", "in", "is", "lambda", "global", "nonlocal", "assert", "yield", "raise",
     "del", "True", "False", "None", "async", "await"}

safe_column_name(name) == IF name \in PYTHON_RESERVED THEN name \o "_" ELSE name

\* PYTHON_TYPE_MAP.get(ocsf_type, "str")
PythonType(ocsf_type) ==
    CASE ocsf_type \in {"integer_t", "long_t", "timestamp_t", "port_t"} -> "int"
      [] ocsf_type = "float_t" -> "float"
      [] ocsf_type = "boolean_t" -> "bool"
      [] ocsf_type = "datetime_t" -> "datetime"
      [] ocsf_type = "bytestring_t" -> "bytes"
      [] OTHER -> "str"

\* CodeGenerator._build_columns over an attribute dict
\* the column list with every foreign-key column nullable
BuildColumnsNullableKeys(naming, attributes) ==
    LET keys == SelectSeq(AttrKeys(attributes), LAMBDA n : ~attributes[n].is_array)
    IN  [i \in 1..Len(keys) |->
           LET attr == attributes[keys[i]]
           IN  IF attr.object_type # None
                  \/ (attr.ocsf_type # None /\ is_object_type(attr.ocsf_type))
               THEN [name |-> foreign_key_column(keys[i]),
                     sqlalchemy_type |-> "Integer",
                     python_type |-> "int",
                     nullable |-> TRUE,
                     is_foreign_key |-> TRUE,
                     references_table |-> table_name(naming, Or(attr.object_type, attr.ocsf_type)),
                     ocsf_type |-> "integer_t"]
               ELSE [name |-> safe_column_name(column_name(keys[i])),
                     sqlalchemy_type |-> get_sqlalchemy_type(Or(attr.ocsf_type, "string_t")),
                     python_type |-> PythonType(Or(attr.ocsf_type, "string_t")),
                     nullable |-> attr.requirement # "required",
                     is_foreign_key |-> FALSE,
                     references_table |-> None,
                     ocsf_type |-> Or(attr.ocsf_type, "string_t")]]

build_columns(naming, attributes) ==
    LET keys == SelectSeq(AttrKeys(attributes), LAMBDA n : ~attributes[n].is_array)
    IN  [i \in 1..Len(keys) |->
           LET attr == attributes[keys[i]]
           IN  IF attr.object_type # None
                  \/ (attr.ocsf_type # None /\ is_object_type(attr.ocsf_type))
               THEN [name |-> foreign_key_column(keys[i]),
                     sqlalchemy_type |-> "Integer",
                     python_type |-> "int",
                     nullable |-> attr.requirement # "required",
                     is_foreign_key |-> TRUE,
                     references_table |-> table_name(naming, Or(attr.object_type, attr.ocsf_type)),
                     ocsf_type |-> "integer_t"]
               ELSE [name |-> safe_column_name(column_name(keys[i])),
                     sqlalchemy_type |-> get_sqlalchemy_type(Or(attr.ocsf_type, "string_t")),
                     python_type |-> PythonType(Or(attr.ocsf_type, "string_t")),
                     nullable |-> attr.requirement # "required",
                     is_foreign_key |-> FALSE,
                     references_table |-> None,
                     ocsf_type |-> Or(attr.ocsf_type, "string_t")]]

----------------------------------------------------------------------------
(* Code generator: contexts, imports and the file list *)

UNDERSCORE_PREFIX_ENTITIES == {"entity", "dns"}

get_module_path(entity_name) ==
    IF entity_name \in UNDERSCORE_PREFIX_ENTITIES THEN "._" \o entity_name
    ELSE "." \o entity_name

RECURSIVE LStripDots(_)
\* str.lstrip(".")
LStripDots(s) == IF Len(s) >= 1 /\ Char(s, 1) = "." THEN LStripDots(SubSeq(s, 2, Len(s))) ELSE s

\* get_import_path inside _collect_imports
get_import_path(an, target, source_file_type) ==
    LET target_is_object == target \in DOMAIN an.objects
        module == LStripDots(get_module_path(target))
    IN  IF source_file_type = "event"
        THEN (IF target_is_object THEN "from ..base_models." \o module ELSE "from ." \o module)
        ELSE (IF target_is_object THEN "from ." \o module ELSE "from ..events." \o module)

\* CodeGenerator._build_relationships: one RelationshipTemplateInfo per
\* attribute that has a target
build_relationships(naming, entity_name, attributes) ==
    LET target(attr) == IF attr.object_type # None THEN attr.object_type
                        ELSE IF attr.ocsf_type # None /\ is_object_type(attr.ocsf_type)
                             THEN attr.ocsf_type
                             ELSE None
        keys == SelectSeq(AttrKeys(attributes), LAMBDA n : target(attributes[n]) # None)
    IN  [i \in 1..Len(keys) |->
            LET attr == attributes[keys[i]]
            IN  [name |-> relationship_name(keys[i]),
                 target_class |-> class_name(naming, target(attr)),
                 target_entity |-> target(attr),
                 is_array |-> attr.is_array,
                 association_table |-> IF attr.is_array
                                       THEN association_table_name(naming, entity_name, keys[i])
                                       ELSE None,
                 fk_column |-> IF attr.is_array THEN None ELSE foreign_key_column(keys[i]),
                 back_populates |-> back_populates_name(entity_name)]]

RECURSIVE BeforeParen(_, _)
\* sa_type.split("(")[0]
BeforeParen(s, i) ==
    IF i > Len(s) \/ Char(s, i) = "(" THEN "" ELSE Char(s, i) \o BeforeParen(s, i + 1)

\* either network type sets the flag
NeedsAnyNetworkType(columns, dialect_type) ==
    \E i \in 1..Len(columns) :
        /\ columns[i].ocsf_type # None
        /\ SqlAlchemyType(columns[i].ocsf_type) \in {"INET", "CIDR"}

\* the loop of _collect_imports over the columns, for one dialect type: some
\* column's mapping has that sqlalchemy_type
needs_dialect(columns, dialect_type) ==
    \E i \in 1..Len(columns) :
        /\ columns[i].ocsf_type # None
        /\ SqlAlchemyType(columns[i].ocsf_type) = dialect_type

\* CodeGenerator._collect_imports: the ImportInfo of one model file
collect_imports(naming, an, entity_name, context, file_type) ==
    LET rels == context.relationships
        kept == SelectSeq([i \in 1..Len(rels) |-> i], LAMBDA i :
                    /\ rels[i].target_entity # entity_name
                    /\ \A j \in 1..(i - 1) : rels[j].target_entity # rels[i].target_entity)
        columns == context.columns
        typed == {i \in 1..Len(columns) : columns[i].ocsf_type # None}
        sa_type(i) == SqlAlchemyType(columns[i].ocsf_type)
    IN  [parent_import |->
             IF context.extends # None
             THEN get_import_path(an, context.extends, file_type) \o " import "
                      \o class_name(naming, context.extends)
             ELSE None,
         relationship_imports |->
             [k \in 1..Len(kept) |->
                 get_import_path(an, rels[kept[k]].target_entity, file_type) \o " import "
                     \o rels[kept[k]].target_class],
         sqlalchemy_types |->
             {BeforeParen(sa_type(i), 1) : i \in {j \in typed : sa_type(j) \notin {"INET", "CIDR"}}}
             \cup (IF \E i \in 1..Len(columns) : columns[i].is_foreign_key
                   THEN {"ForeignKey"} ELSE {})
             \cup (IF context.extends # None THEN {"ForeignKey"} ELSE {})
             \cup (IF context.is_polymorphic_base /\ context.extends = None
                   THEN {"String"} ELSE {}),
         needs_inet |-> needs_dialect(columns, "INET"),
         needs_cidr |-> needs_dialect(columns, "CIDR"),
         needs_relationship |-> TRUE,
         needs_timestamp_mixin |-> TRUE,
         needs_list |-> TRUE]

\* _build_object_context / _build_event_context: the template context
build_context(naming, an, tree, entity, file_type) ==
    LET context == [class_name |-> class_name(naming, entity.name),
                    table_name |-> table_name(naming, entity.name),
                    extends |-> entity.extends,
                    parent_class |-> IF entity.extends # None
                                     THEN class_name(naming, entity.extends) ELSE None,
                    parent_table |-> IF entity.extends # None
                                     THEN table_name(naming, entity.extends) ELSE None,
                    is_polymorphic_base |-> entity.name \in DOMAIN tree.children,
                    columns |-> build_columns(naming, entity.own_attributes),
                    relationships |->
                        build_relationships(naming, entity.name, entity.own_attributes)]
    IN  [context |-> context,
         imports |-> collect_imports(naming, an, entity.name, context, file_type)]

\* the static import block of _add_file_header, written whatever the ImportInfo
AddStaticHeader(imports) ==
    [parent_import |-> imports.parent_import,
     relationship_imports |-> ToSet(imports.relationship_imports),
     sqlalchemy |-> {"ForeignKey", "String", "Text", "Integer", "BigInteger", "Float", "Boolean",
                     "DateTime", "LargeBinary", "Uuid", "Table", "Column", "func"},
     dialect |-> <<"INET", "CIDR">>]

\* the import lines _add_file_header writes for an ImportInfo
add_file_header(imports) ==
    [parent_import |-> imports.parent_import,
     relationship_imports |-> ToSet(imports.relationship_imports),
     sqlalchemy |-> imports.sqlalchemy_types,
     dialect |-> (IF imports.needs_inet THEN <<"INET">> ELSE <<>>)
                     \o (IF imports.needs_cidr THEN <<"CIDR">> ELSE <<>>)]

build_object_context(naming, an, obj) == build_context(naming, an, an.object_tree, obj, "object")

build_event_context(naming, an, event) == build_context(naming, an, an.event_tree, event, "event")

generate_base_module == [path |-> "base.py", entity_name |-> None, file_type |-> "base"]

generate_object_models(naming, an) ==
    LET names == SelectSeq(an.object_tree.topological_order, LAMBDA n : n \in DOMAIN an.objects)
    IN  [i \in 1..Len(names) |->
            LET built == build_object_context(naming, an, an.objects[names[i]])
            IN  [path |-> "base_models/" \o names[i] \o ".py",
                 entity_name |-> names[i],
                 file_type |-> "object_model",
                 context |-> built.context,
                 header |-> add_file_header(built.imports)]]

generate_event_models(naming, an) ==
    LET names == SelectSeq(an.event_tree.topological_order, LAMBDA n : n \in DOMAIN an.events)
    IN  [i \in 1..Len(names) |->
            LET built == build_event_context(naming, an, an.events[names[i]])
            IN  [path |-> "events/" \o names[i] \o ".py",
                 entity_name |-> names[i],
                 file_type |-> "event_model",
                 context |-> built.context,
                 header |-> add_file_header(built.imports)]]

\* the ImportInfo _generate_primitive_array_table builds
primitive_array_imports(naming, an, arr_info) ==
    LET parent_module == LStripDots(get_module_path(arr_info.parent_entity))
        parent_import == (IF arr_info.parent_entity \in DOMAIN an.objects
                          THEN "from ..base_models." ELSE "from ..events.")
                             \o parent_module \o " import "
                             \o class_name(naming, arr_info.parent_entity)
        sa_type_base == SqlAlchemyType(arr_info.element_type)
    IN  [parent_import |-> None,
         relationship_imports |-> <<parent_import>>,
         sqlalchemy_types |-> {"ForeignKey", "Integer"}
             \cup (IF sa_type_base \in {"INET", "CIDR"} THEN {} ELSE {sa_type_base}),
         needs_inet |-> sa_type_base = "INET",
         needs_cidr |-> sa_type_base = "CIDR",
         needs_relationship |-> TRUE,
         needs_timestamp_mixin |-> FALSE,
         needs_list |-> FALSE]

\* the ImportInfo _generate_object_association_table builds
object_association_imports ==
    [parent_import |-> None,
     relationship_imports |-> <<>>,
     sqlalchemy_types |-> {"ForeignKey", "Integer"},
     needs_inet |-> FALSE,
     needs_cidr |-> FALSE,
     needs_relationship |-> FALSE,
     needs_timestamp_mixin |-> FALSE,
     needs_list |-> FALSE]

generate_association_tables(naming, an) ==
    [i \in 1..Len(an.array_attributes) |->
        LET arr_info == an.array_attributes[i]
        IN  [path |-> "relations/" \o arr_info.association_table_name \o ".py",
             entity_name |-> arr_info.association_table_name,
             file_type |-> "association",
             table_name |-> arr_info.association_table_name,
             header |-> add_file_header(IF arr_info.is_primitive
                                        THEN primitive_array_imports(naming, an, arr_info)
                                        ELSE object_association_imports)]]

\* str.removeprefix
RemovePrefix(s, prefix) ==
    IF Len(s) >= Len(prefix) /\ SubSeq(s, 1, Len(prefix)) = prefix
    THEN SubSeq(s, Len(prefix) + 1, Len(s))
    ELSE s

\* the filename of each entry of METADATA_TABLE_SPECS
METADATA_TABLE_SPECS ==
    <<"objects.py", "attributes.py", "enums.py", "categories.py", "event_classes.py">>

generate_metadata_tables ==
    [i \in 1..Len(METADATA_TABLE_SPECS) |->
        [path |-> "metadata/" \o METADATA_TABLE_SPECS[i], entity_name |-> None,
         file_type |-> "metadata"]]

\* _generate_init_files: the import lines of the two entity packages and of the
\* relations package are kept, the fixed ones are left out
generate_init_files(naming, an) ==
    LET objs == an.object_tree.topological_order
        evs == an.event_tree.topological_order
        arrs == an.array_attributes
        init(path, lines) == [path |-> path, entity_name |-> None, file_type |-> "init",
                              imports |-> lines]
    IN  <<init("base_models/__init__.py",
               [i \in 1..Len(objs) |->
                   "from ." \o objs[i] \o " import " \o class_name(naming, objs[i])]),
          init("events/__init__.py",
               [i \in 1..Len(evs) |->
                   "from ." \o evs[i] \o " import " \o class_name(naming, evs[i])]),
          init("relations/__init__.py",
               [i \in 1..Len(arrs) |->
                   "from ." \o arrs[i].association_table_name \o " import "
                       \o class_name(naming, RemovePrefix(arrs[i].association_table_name,
                                                          naming.table_prefix))]),
          init("metadata/__init__.py", <<>>),
          init("__init__.py", <<>>)>>

\* CodeGenerator.generate_all over the schema it was given
generate_all(naming, an) ==
    <<generate_base_module>>
        \o generate_object_models(naming, an)
        \o generate_event_models(naming, an)
        \o generate_association_tables(naming, an)
        \o generate_metadata_tables
        \o generate_init_files(naming, an)

----------------------------------------------------------------------------
(* Object filter *)

\* ObjectFilter._get_object_dependencies
\* the scan runs over own_attributes, so inherited references are missed
GetOwnDependencies(an, obj_name) ==
    IF obj_name \notin DOMAIN an.objects THEN {}
    ELSE LET own == an.objects[obj_name].own_attributes
         IN  {own[n].object_type : n \in {m \in DOMAIN own : own[m].object_type # None}}
             \cup {own[n].ocsf_type : n \in {m \in DOMAIN own :
                       /\ own[m].object_type = None
                       /\ own[m].ocsf_type # None
                       /\ own[m].ocsf_type \in DOMAIN an.objects}}

get_object_dependencies(an, obj_name) ==
    IF obj_name \notin DOMAIN an.objects THEN {}
    ELSE LET all == an.objects[obj_name].all_attributes
         IN  {all[n].object_type : n \in {m \in DOMAIN all : all[m].object_type # None}}
             \cup {all[n].ocsf_type : n \in {m \in DOMAIN all :
                       /\ all[m].object_type = None
                       /\ all[m].ocsf_type # None
                       /\ all[m].ocsf_type \in DOMAIN an.objects}}

\* the iteration order of a set of names: ord for the names it ranks, then the rest
SetOrder(S, ord) ==
    SelectSeq(ord, LAMBDA n : n \in S)
        \o SelectSeq(<<Ghost>>, LAMBDA n : n \in S /\ ~Contains(ord, n))

RECURSIVE BfsLoopLateCutoff(_, _, _, _, _, _)
\* the traversal with the cutoff test depth > max_depth
BfsLoopLateCutoff(an, max_depth, queue, included, depths, ord) ==
    IF queue = <<>> THEN [included |-> included, depths |-> depths]
    ELSE LET obj_name == Head(queue)[1]
             depth == Head(queue)[2]
             rest == Tail(queue)
         IN  IF obj_name \in included \/ obj_name \notin DOMAIN an.objects
             THEN BfsLoopLateCutoff(an, max_depth, rest, included, depths, ord)
             ELSE LET inc == included \cup {obj_name}
                      dep == Override(depths, [k \in {obj_name} |-> depth])
                  IN  IF depth > max_depth
                      THEN BfsLoopLateCutoff(an, max_depth, rest, inc, dep, ord)
                      ELSE LET deps == SetOrder(get_object_dependencies(an, obj_name) \ inc, ord)
                               more == [i \in 1..Len(deps) |-> <<deps[i], depth + 1>>]
                           IN  BfsLoopLateCutoff(an, max_depth, rest \o more, inc, dep, ord)

RECURSIVE BfsLoop(_, _, _, _, _, _)
\* the while loop of _bfs_traverse; queue holds <<name, depth>> pairs
BfsLoop(an, max_depth, queue, included, depths, ord) ==
    IF queue = <<>> THEN [included |-> included, depths |-> depths]
    ELSE LET obj_name == Head(queue)[1]
             depth == Head(queue)[2]
             rest == Tail(queue)
         IN  IF obj_name \in included
             THEN BfsLoop(an, max_depth, rest, included, depths, ord)
             ELSE IF obj_name \notin DOMAIN an.objects
             THEN BfsLoop(an, max_depth, rest, included, depths, ord)
             ELSE LET inc == included \cup {obj_name}
                      dep == Override(depths, [k \in {obj_name} |-> depth])
                  IN  IF depth >= max_depth
                      THEN BfsLoop(an, max_depth, rest, inc, dep, ord)
                      ELSE LET deps == SetOrder(get_object_dependencies(an, obj_name) \ inc, ord)
                               more == [i \in 1..Len(deps) |-> <<deps[i], depth + 1>>]
                           IN  BfsLoop(an, max_depth, rest \o more, inc, dep, ord)

bfs_traverse(an, core, max_depth, ord) ==
    BfsLoop(an, max_depth, <<<<core, 0>>>>, {}, EmptyDict, ord)

\* only the direct parent of each included object is added
AddDirectParentsOnly(an, included) ==
    {parent_name \in {an.objects[o].inheritance_chain[2] :
                          o \in {p \in included \cap DOMAIN an.objects :
                                    Len(an.objects[p].inheritance_chain) >= 2}} :
        parent_name \notin included /\ parent_name \in DOMAIN an.objects}

\* chain parents are added whether or not the traversal reached them
AddParentsAlreadyIncluded(an, included) ==
    {parent_name \in UNION {ToSet(Tail(an.objects[o].inheritance_chain)) :
                                o \in included \cap DOMAIN an.objects} :
        parent_name \in DOMAIN an.objects}

add_inheritance_parents(an, included) ==
    {parent_name \in UNION {ToSet(Tail(an.objects[o].inheritance_chain)) :
                                o \in included \cap DOMAIN an.objects} :
        parent_name \notin included /\ parent_name \in DOMAIN an.objects}

find_related_events(an, included_objects) ==
    {ev \in DOMAIN an.events :
        \E n \in DOMAIN an.events[ev].all_attributes :
            LET attr == an.events[ev].all_attributes[n]
            IN  attr.object_type # None /\ attr.object_type \in included_objects}

\* ObjectFilter._topological_sort; order is the iteration order of included
topological_sort(tree, included, order) ==
    LET linked(n) == tree.parents[n] # None /\ tree.parents[n] \in included
        in_degree == [n \in included |-> IF linked(n) THEN 1 ELSE 0]
        adj == [p \in included |-> SelectSeq(order, LAMBDA n : linked(n) /\ tree.parents[n] = p)]
        queue == SelectSeq(order, LAMBDA n : in_degree[n] = 0)
    IN  KahnLoop(queue, <<>>, in_degree, adj)

\* the loop shared by _rebuild_inheritance_tree and _rebuild_event_tree
RebuildTree(original, included, order) ==
    LET kept(n) == LET p == IF n \in DOMAIN original.parents THEN original.parents[n] ELSE None
                   IN  IF p # None /\ p \in included THEN p ELSE None
        maps == [children |-> [p \in {kept(n) : n \in included} \ {None} |->
                                   SelectSeq(order, LAMBDA n : kept(n) = p)],
                 parents |-> [n \in included |-> kept(n)],
                 roots |-> SelectSeq(order, LAMBDA n : kept(n) = None)]
    IN  [children |-> maps.children, parents |-> maps.parents, roots |-> maps.roots,
         topological_order |-> topological_sort(maps, included, order)]

EmptyTree == [children |-> EmptyDict, parents |-> EmptyDict, roots |-> <<>>, topological_order |-> <<>>]

rebuild_inheritance_tree(an, included, ord) ==
    RebuildTree(an.object_tree, included, SetOrder(included, ord))

rebuild_event_tree(an, included, evOrd) ==
    IF included = {} THEN EmptyTree
    ELSE RebuildTree(an.event_tree, included, SetOrder(included, evOrd))

\* the target end is not looked at
FilterRelationshipsBySource(an, included_objects, included_events) ==
    SelectSeq(an.relationships, LAMBDA rel :
        rel.source_entity \in included_objects \cup included_events)

filter_relationships(an, included_objects, included_events) ==
    LET all_included == included_objects \cup included_events
    IN  SelectSeq(an.relationships, LAMBDA rel :
            rel.source_entity \in all_included /\ rel.target_entity \in included_objects)

\* the element type is required whatever the array holds
FilterArraysByElement(an, included_objects, included_events) ==
    SelectSeq(an.array_attributes, LAMBDA arr :
        /\ arr.parent_entity \in included_objects \cup included_events
        /\ arr.element_type \in included_objects)

filter_array_attributes(an, included_objects, included_events) ==
    LET all_included == included_objects \cup included_events
    IN  SelectSeq(an.array_attributes, LAMBDA arr :
            /\ arr.parent_entity \in all_included
            /\ (arr.is_primitive \/ arr.element_type \in included_objects))

build_filtered_schema(an, included_objects, included_events, ord, evOrd) ==
    [objects |-> [n \in DOMAIN an.objects \cap included_objects |-> an.objects[n]],
     objOrder |-> SelectSeq(an.objOrder, LAMBDA n : n \in included_objects),
     events |-> [n \in DOMAIN an.events \cap included_events |-> an.events[n]],
     evOrder |-> SelectSeq(an.evOrder, LAMBDA n : n \in included_events),
     object_tree |-> rebuild_inheritance_tree(an, included_objects, ord),
     event_tree |-> rebuild_event_tree(an, included_events, evOrd),
     relationships |-> filter_relationships(an, included_objects, included_events),
     array_attributes |-> filter_array_attributes(an, included_objects, included_events)]

\* the characters of names in code-point order
CodePoints == "-" \o DigitChars \o UpperChars \o "_" \o LowerChars

Ord(c) == CHOOSE i \in 1..Len(CodePoints) : Char(CodePoints, i) = c

RECURSIVE StrLess(_, _)
\* s < t on Python strings
StrLess(s, t) ==
    IF t = "" THEN FALSE
    ELSE IF s = "" THEN TRUE
    ELSE IF Char(s, 1) = Char(t, 1) THEN StrLess(SubSeq(s, 2, Len(s)), SubSeq(t, 2, Len(t)))
    ELSE Ord(Char(s, 1)) < Ord(Char(t, 1))

\* sorted(names)
Sorted(S) == CHOOSE q \in Perms(S) : \A i, j \in 1..Len(q) : i < j => StrLess(q[i], q[j])

RECURSIVE Join(_, _)
\* sep.join(parts)
Join(parts, sep) ==
    IF parts = <<>> THEN ""
    ELSE IF Len(parts) = 1 THEN parts[1]
    ELSE parts[1] \o sep \o Join(Tail(parts), sep)

\* the length of the sample of object names in the message
SampleSize == 10

\* available = sorted(self.analyzed.objects.keys())[:10]
AvailableSample(an) ==
    LET names == Sorted(DOMAIN an.objects)
    IN  SubSeq(names, 1, IF Len(names) < SampleSize THEN Len(names) ELSE SampleSize)

\* a message that leaves the root out
CoreObjectNotFoundUnnamed(an, cfg) ==
    "Core object not found in schema. "
        \o "Available objects include: " \o Join(AvailableSample(an), ", ") \o "..."

\* the message of the ValueError filter() raises
core_object_not_found(an, cfg) ==
    "Core object '" \o cfg.core_object \o "' not found in schema. "
        \o "Available objects include: " \o Join(AvailableSample(an), ", ") \o "..."

\* the subtraction is left out: every object is reported excluded
ExcludedEverything(an, all_included) == DOMAIN an.objects

\* excluded = set(self.analyzed.objects.keys()) - all_included
excluded_objects(an, all_included) == DOMAIN an.objects \ all_included

\* the body of ObjectFilter.filter after the root check: <<filtered, result>>
FilterBody(an, cfg, ord, evOrd) ==
    LET bfs == bfs_traverse(an, cfg.core_object, cfg.max_depth, ord)
        included == bfs.included
        inheritance_additions == add_inheritance_parents(an, included)
        all_included == included \cup inheritance_additions
        excluded == excluded_objects(an, all_included)
        included_events == IF cfg.include_events THEN find_related_events(an, all_included) ELSE {}
    IN  <<build_filtered_schema(an, all_included, included_events, ord, evOrd),
          [included_objects |-> included,
           object_depths |-> bfs.depths,
           inheritance_additions |-> inheritance_additions,
           excluded_objects |-> excluded,
           included_events |-> included_events]>>

----------------------------------------------------------------------------
(* Input schemas: what SchemaLoader.load() returned *)

\* one OcsfAttribute as _parse_attributes builds it
Attr(name, type, is_array, requirement, object_type) ==
    [name |-> name, caption |-> name, description |-> None, type |-> type,
     is_array |-> is_array, requirement |-> requirement, object_type |-> object_type]

Absent == [name |-> None]

\* the attribute dict holding the given attributes (Absent ones left out)
AttrDict(attrs) ==
    [n \in {attrs[i].name : i \in 1..Len(attrs)} \ {None} |->
        attrs[CHOOSE i \in 1..Len(attrs) : attrs[i].name = n]]

Entity(extends, attrs) == [extends |-> extends, attributes |-> AttrDict(attrs)]

DictEmpty == EmptyDict

\* dictionary.json gives attribute y a type and the array flag
DictY == [n \in {"y"} |-> [type |-> "c", is_array |-> TRUE, object_type |-> None,
                           caption |-> None, description |-> None]]

Extendable == {None, Ghost} \cup ObjNames

\* inheritance shapes: every extends assignment over three objects
TreeSchemas ==
    {[objects |-> [n \in ObjNames |->
                      Entity(ext[n],
                             IF n = "a" THEN <<Attr("x", "string_t", FALSE, "required", None)>>
                             ELSE IF n = "b" THEN <<Attr("x", "c", FALSE, "optional", None)>>
                             ELSE <<>>)],
      objOrder |-> order,
      events |-> [n \in EvNames |->
                     IF n = "e" THEN Entity(None, <<Attr("x", "object_t", FALSE, "optional", "a")>>)
                     ELSE Entity("e", <<>>)],
      evOrder |-> <<"e", "f">>,
      dictionary |-> DictEmpty] :
        ext \in [ObjNames -> Extendable], order \in {<<"a", "b", "c">>, <<"c", "b", "a">>}}

\* event shapes: extends assignments over two events, referencing objects
EventSchemas ==
    {[objects |-> [n \in ObjNames |->
                      IF n = "a" THEN Entity(None, <<Attr("x", "c", TRUE, "optional", None)>>)
                      ELSE IF n = "b" THEN Entity("a", <<>>)
                      ELSE Entity(None, <<>>)],
      objOrder |-> <<"a", "b", "c">>,
      events |-> [n \in EvNames |-> Entity(IF n = "e" THEN extE ELSE extF,
                                           IF n = "e" THEN <<ex>> ELSE <<fy>>)],
      evOrder |-> order,
      dictionary |-> DictEmpty] :
        extE \in {None, "f", Ghost},
        extF \in {None, "e"},
        order \in {<<"e", "f">>, <<"f", "e">>},
        ex \in {Absent,
                Attr("x", "a", FALSE, "optional", None),
                Attr("x", "object_t", FALSE, "required", "b"),
                Attr("x", "object_t", TRUE, "optional", "c")},
        fy \in {Absent, Attr("y", "ip_t", TRUE, "optional", None)}}

ExtendsShapes ==
    {[n \in ObjNames |-> None],
     [n \in ObjNames |-> IF n = "a" THEN None ELSE IF n = "b" THEN "a" ELSE "b"],
     [n \in ObjNames |-> IF n = "a" THEN None ELSE IF n = "b" THEN Ghost ELSE "a"]}

\* reference shapes: scalar, array and object-reference attributes over three
\* objects; ay is <<attribute y of a, dictionary.json>>
ReferenceSchemas ==
    {[objects |-> [n \in ObjNames |->
                      Entity(ext[n],
                             IF n = "a" THEN <<ax, ay[1]>>
                             ELSE IF n = "b" THEN <<bx>>
                             ELSE <<Attr("x", "integer_t", FALSE, "optional", None)>>)],
      objOrder |-> <<"b", "a", "c">>,
      events |-> [n \in EvNames |->
                     IF n = "e" THEN Entity(None, <<Attr("y", None, FALSE, "optional", None)>>)
                     ELSE Entity("e", <<Attr("x", "object_t", FALSE, "optional", "b")>>)],
      evOrder |-> <<"e", "f">>,
      dictionary |-> ay[2]] :
        ext \in ExtendsShapes,
        ax \in {Absent,
                Attr("x", "subnet_t", FALSE, "required", None),
                Attr("x", "b", FALSE, "optional", None),
                Attr("x", "object_t", TRUE, "optional", "b")},
        ay \in {<<Absent, DictEmpty>>,
                <<Attr("y", "c", FALSE, "required", None), DictEmpty>>,
                <<Attr("y", None, FALSE, "optional", None), DictEmpty>>,
                <<Attr("y", None, FALSE, "optional", None), DictY>>},
        bx \in {Absent,
                Attr("x", "c", TRUE, "optional", None),
                Attr("x", "a", FALSE, "optional", None),
                Attr("x", Ghost, TRUE, "optional", None)}}

\* column shapes: network-typed scalars and arrays, an attribute name spelled
\* in two cases, objects without attributes, a chain of object arrays
ColumnSchemas ==
    {[objects |-> [n \in ObjNames |->
                      IF n = "a" THEN Entity(None, <<ax, aX, refs[1]>>)
                      ELSE IF n = "b" THEN Entity(extB, <<refs[2]>>)
                      ELSE Entity(None, <<>>)],
      objOrder |-> <<"a", "b", "c">>,
      events |-> [n \in EvNames |->
                     IF n = "e" THEN Entity(None, <<Attr("x", "ip_t", FALSE, "optional", None)>>)
                     ELSE Entity("e", <<>>)],
      evOrder |-> <<"e", "f">>,
      dictionary |-> DictEmpty] :
        extB \in {None, "a", "c"},
        ax \in {Attr("x", "ip_t", FALSE, "required", None),
                Attr("x", "subnet_t", FALSE, "optional", None),
                Attr("x", "ip_t", TRUE, "optional", None),
                Attr("x", "mac_t", FALSE, "optional", None),
                Attr("x", "username_t", FALSE, "optional", None)},
        aX \in {Absent,
                Attr("X", "string_t", TRUE, "optional", None),
                Attr("X", "subnet_t", FALSE, "optional", None)},
        refs \in {<<Absent, Absent>>,
                  <<Attr("y", "object_t", TRUE, "optional", "b"),
                    Attr("x", "c", TRUE, "optional", None)>>}}

Schemas == TreeSchemas \cup EventSchemas \cup ReferenceSchemas \cup ColumnSchemas

----------------------------------------------------------------------------
(* State machine *)

Idle == [kind |-> None, name |-> None, chain |-> <<>>, current |-> None, pc |-> "idle"]

EmptyAnalyzed ==
    [objects |-> EmptyDict, objOrder |-> <<>>, events |-> EmptyDict, evOrder |-> <<>>,
     object_tree |-> EmptyTree, event_tree |-> EmptyTree,
     relationships |-> <<>>, array_attributes |-> <<>>]

EmptyResult ==
    [included_objects |-> {}, object_depths |-> EmptyDict, inheritance_additions |-> {},
     excluded_objects |-> {}, included_events |-> {}]

NoConfig == [core_object |-> None, max_depth |-> 0, include_events |-> FALSE]

\* no CodeGenerator constructed yet
NoGenerator == [naming |-> DefaultNamingConfig, given |-> FALSE, analyzed_schema |-> EmptyAnalyzed]

\* the pipeline starts from a loaded schema: the directory is not looked at
NoRepo == [objects |-> EmptyDict, base_event |-> "absent", events |-> EmptyDict]

\* SchemaLoader constructed, load() not called: no directory listed, the
\* objects and events dicts (their keys, in insertion order) not built
LoaderIdle == [pc |-> "idle", todo |-> {}, objects |-> <<>>, events |-> <<>>, warnings |-> 0]

\* no analyze() and no filter() call made yet
NoCalls == [analyze |-> 0, filter |-> 0]

Init ==
    /\ schema \in Schemas
    /\ phase = "loaded"
    /\ walk = Idle
    /\ resolved = NotFound
    /\ analyzed = EmptyAnalyzed
    /\ config = NoConfig
    /\ filtered = EmptyAnalyzed
    /\ result = EmptyResult
    /\ error = None
    /\ message = None
    /\ generator = NoGenerator
    /\ files = <<>>
    /\ repo = NoRepo
    /\ loader = LoaderIdle
    /\ calls = NoCalls

Entities(kind) == IF kind = "object" THEN schema.objects ELSE schema.events

\* resolve_object(name) / resolve_event(name): the lookup and the first line of
\* the chain builder
ResolveStart(kind, name) ==
    /\ phase = "loaded"
    /\ walk.pc = "idle"
    /\ IF name \notin DOMAIN Entities(kind)
       THEN /\ resolved' = NotFound
            /\ walk' = walk
       ELSE /\ walk' = [kind |-> kind, name |-> name, chain |-> <<name>>,
                        current |-> Get(Entities(kind), name), pc |-> "loop"]
            /\ resolved' = NotFound
    /\ UNCHANGED <<schema, phase, analyzed, config, filtered, result, error,
                 message, generator, files, repo, loader, calls>>

\* the loop with the append placed before the cycle test
ChainStepAppendFirst ==
    /\ walk.pc = "loop"
    /\ LET ents == Entities(walk.kind)
       IN  IF walk.current # None /\ ents[walk.current].extends # None
           THEN LET parent_name == ents[walk.current].extends
                IN  IF Contains(walk.chain, parent_name)
                    THEN walk' = [walk EXCEPT !.chain = Append(@, parent_name), !.pc = "done"]
                    ELSE walk' = [walk EXCEPT !.chain = Append(@, parent_name),
                                              !.current = Get(ents, parent_name)]
           ELSE walk' = [walk EXCEPT !.pc = "done"]
    /\ UNCHANGED <<schema, phase, resolved, analyzed, config, filtered, result, error,
                 message, generator, files, repo, loader, calls>>

\* one evaluation of the loop condition of the chain builder and, when it
\* holds, one iteration of the loop
ChainStep ==
    /\ walk.pc = "loop"
    /\ LET ents == Entities(walk.kind)
       IN  IF walk.current # None /\ ents[walk.current].extends # None
           THEN LET parent_name == ents[walk.current].extends
                IN  IF Contains(walk.chain, parent_name)
                    THEN walk' = [walk EXCEPT !.pc = "done"]
                    ELSE walk' = [walk EXCEPT !.chain = Append(@, parent_name),
                                              !.current = Get(ents, parent_name)]
           ELSE walk' = [walk EXCEPT !.pc = "done"]
    /\ UNCHANGED <<schema, phase, resolved, analyzed, config, filtered, result, error,
                 message, generator, files, repo, loader, calls>>

\* the rest of resolve_object / resolve_event once the chain is returned
ResolveFinish ==
    /\ walk.pc = "done"
    /\ resolved' = ResolveWithChain(Entities(walk.kind), schema.dictionary, walk.name, walk.chain)
    /\ walk' = Idle
    /\ UNCHANGED <<schema, phase, analyzed, config, filtered, result, error,
                 message, generator, files, repo, loader, calls>>

\* the value the last resolve_* call made by analyze() returned
LastResolved(sch) ==
    IF sch.evOrder # <<>> THEN resolve_event(sch, sch.evOrder[Len(sch.evOrder)])
    ELSE IF sch.objOrder # <<>> THEN resolve_object(sch, sch.objOrder[Len(sch.objOrder)])
    ELSE NotFound

\* SchemaAnalyzer.analyze(), its result handed to ObjectFilter(analyzed)
Analyze ==
    /\ phase = "loaded"
    /\ walk.pc = "idle"
    /\ analyzed' = analyze(schema)
    /\ resolved' = LastResolved(schema)
    /\ phase' = "analyzed"
    /\ calls' = [calls EXCEPT !.analyze = @ + 1]
    /\ UNCHANGED <<schema, walk, config, filtered, result, error,
                 message, generator, files, repo, loader>>

\* the call with the filtered schema stored over the ObjectFilter's own schema
FilterInPlace(cfg, ord, evOrd) ==
    /\ config' = cfg
    /\ IF cfg.core_object \notin DOMAIN analyzed.objects
       THEN /\ error' = "ValueError"
            /\ message' = core_object_not_found(analyzed, cfg)
            /\ filtered' = EmptyAnalyzed
            /\ result' = EmptyResult
            /\ analyzed' = analyzed
       ELSE /\ error' = None
            /\ message' = None
            /\ filtered' = FilterBody(analyzed, cfg, ord, evOrd)[1]
            /\ result' = FilterBody(analyzed, cfg, ord, evOrd)[2]
            /\ analyzed' = filtered'
    /\ phase' = "filtered"
    /\ calls' = [calls EXCEPT !.filter = @ + 1]
    /\ UNCHANGED <<schema, walk, resolved, generator, files, repo, loader>>

\* ObjectFilter.filter(config); ord and evOrd are the iteration orders of the
\* name sets the call builds
FilterCall(cfg, ord, evOrd) ==
    /\ config' = cfg
    /\ IF cfg.core_object \notin DOMAIN analyzed.objects
       THEN /\ error' = "ValueError"
            /\ message' = core_object_not_found(analyzed, cfg)
            /\ filtered' = EmptyAnalyzed
            /\ result' = EmptyResult
       ELSE /\ error' = None
            /\ message' = None
            /\ filtered' = FilterBody(analyzed, cfg, ord, evOrd)[1]
            /\ result' = FilterBody(analyzed, cfg, ord, evOrd)[2]
    /\ phase' = "filtered"
    /\ calls' = [calls EXCEPT !.filter = @ + 1]
    /\ UNCHANGED <<schema, walk, resolved, analyzed, generator, files, repo, loader>>

\* the filter() call of cmd_generate, on a new ObjectFilter(analyzed)
Filter(cfg, ord, evOrd) ==
    /\ phase = "analyzed"
    /\ FilterCall(cfg, ord, evOrd)

\* another filter() call on the same ObjectFilter
FilterAgain(cfg, ord, evOrd) ==
    /\ phase = "filtered"
    /\ calls.filter < MaxCalls
    /\ FilterCall(cfg, ord, evOrd)

\* the schema generate_all() works on: the one handed to the constructor, else
\* a fresh analyze()
GeneratedSchema(gen, sch) == IF gen.given THEN gen.analyzed_schema ELSE analyze(sch)

\* CodeGenerator(analyzer, output, naming_config, analyzed_schema).generate_all()
\* as cmd_generate calls it: after analyze(), or after a filter() that returned
Generate(naming_config) ==
    /\ phase = "analyzed" \/ (phase = "filtered" /\ error = None)
    /\ generator' = [naming |-> naming_config,
                     given |-> phase = "filtered",
                     analyzed_schema |-> IF phase = "filtered" THEN filtered ELSE EmptyAnalyzed]
    /\ files' = generate_all(naming_config, GeneratedSchema(generator', schema))
    /\ phase' = "generated"
    /\ calls' = IF generator'.given THEN calls ELSE [calls EXCEPT !.analyze = @ + 1]
    /\ UNCHANGED <<schema, walk, resolved, analyzed, config, filtered, result, error,
                   message, repo, loader>>

Configs ==
    [core_object : ObjNames \cup {Ghost}, max_depth : 0..MaxDepth, include_events : BOOLEAN]

Next ==
    \/ \E kind \in {"object", "event"}, name \in ObjNames \cup EvNames \cup {Ghost} :
           ResolveStart(kind, name)
    \/ ChainStep
    \/ ResolveFinish
    \/ Analyze
    \/ \E cfg \in Configs, ord \in Perms(ObjNames), evOrd \in Perms(EvNames) :
           Filter(cfg, ord, evOrd)
    \/ \E naming_config \in NamingConfigs : Generate(naming_config)

Spec == Init /\ [][Next]_vars

\* the pipeline is one synchronous thread: a chain walk that has started keeps
\* executing its loop
LiveSpec == Spec /\ WF_vars(ChainStep)

----------------------------------------------------------------------------
(* One ObjectFilter used for several filter() calls *)

\* schemas with a chain of references a -> b -> c or a cycle a -> b -> a,
\* without parents or with the chain of parents c -> b -> a
RefilterSchemas ==
    {s \in ReferenceSchemas :
        /\ s.objects["b"].extends \in {None, "a"}
        /\ "x" \in DOMAIN s.objects["a"].attributes
        /\ s.objects["a"].attributes["x"].type = "b"
        /\ "x" \in DOMAIN s.objects["b"].attributes
        /\ s.objects["b"].attributes["x"].type \in {"a", "c"}
        /\ s.dictionary = DictEmpty}

RefilterInit ==
    /\ schema \in RefilterSchemas
    /\ phase = "loaded"
    /\ walk = Idle
    /\ resolved = NotFound
    /\ analyzed = EmptyAnalyzed
    /\ config = NoConfig
    /\ filtered = EmptyAnalyzed
    /\ result = EmptyResult
    /\ error = None
    /\ message = None
    /\ generator = NoGenerator
    /\ files = <<>>
    /\ repo = NoRepo
    /\ loader = LoaderIdle
    /\ calls = NoCalls

RefilterNext ==
    \/ Analyze
    \/ \E cfg \in Configs, ord \in Perms(ObjNames), evOrd \in Perms(EvNames) :
           Filter(cfg, ord, evOrd)
    \/ \E cfg \in Configs, ord \in Perms(ObjNames), evOrd \in Perms(EvNames) :
           FilterAgain(cfg, ord, evOrd)

\* analyze(), ObjectFilter(analyzed), then filter() calls with any configurations
RefilterSpec == RefilterInit /\ [][RefilterNext]_vars

----------------------------------------------------------------------------
(* Schema loader: load() over a repository directory *)

\* loading a file either parses ("ok") or raises ("bad": invalid JSON, or JSON
\* that is no dict)
FileStates == {"ok", "bad"}

\* repository directories: some object files under objects/, possibly
\* events/base_event.json, some event files under one category directory
Repos ==
    {[objects |-> o, base_event |-> b, events |-> e] :
        o \in UNION {[S -> FileStates] : S \in SUBSET ObjNames},
        b \in {"absent"} \cup FileStates,
        e \in UNION {[S -> FileStates] : S \in SUBSET EvNames}}

\* what the well-formed files of the repository hold
RepoSource ==
    [objects |-> [n \in ObjNames |->
                     IF n = "a" THEN Entity(None, <<Attr("x", "string_t", FALSE, "required", None)>>)
                     ELSE IF n = "b" THEN Entity("a", <<>>)
                     ELSE Entity("b", <<Attr("x", "a", TRUE, "optional", None)>>)],
     events |-> [n \in EvNames \cup {"base_event"} |->
                    IF n = "base_event" THEN Entity(None, <<Attr("y", "integer_t", FALSE, "required", None)>>)
                    ELSE IF n = "e" THEN Entity("base_event", <<Attr("x", "object_t", FALSE, "optional", "a")>>)
                    ELSE Entity("e", <<>>)],
     dictionary |-> DictEmpty]

\* no OcsfSchema returned yet
NoSchema ==
    [objects |-> EmptyDict, objOrder |-> <<>>, events |-> EmptyDict, evOrder |-> <<>>,
     dictionary |-> DictEmpty]

\* load() up to the glob of objects/ in _load_objects
LoadObjects ==
    /\ loader.pc = "idle"
    /\ loader' = [loader EXCEPT !.pc = "objects", !.todo = DOMAIN repo.objects]
    /\ UNCHANGED <<schema, phase, walk, resolved, analyzed, config, filtered, result, error,
                   message, generator, files, repo, calls>>

\* one iteration of the loop of _load_objects, in the order glob yields the
\* files: the object is stored, or the exception is caught and a warning printed
LoadObjectFile(obj_name) ==
    /\ loader.pc = "objects"
    /\ obj_name \in loader.todo
    /\ loader' = IF repo.objects[obj_name] = "ok"
                 THEN [loader EXCEPT !.todo = @ \ {obj_name},
                                     !.objects = Append(@, obj_name)]
                 ELSE [loader EXCEPT !.todo = @ \ {obj_name},
                                     !.warnings = @ + 1]
    /\ UNCHANGED <<schema, phase, walk, resolved, analyzed, config, filtered, result, error,
                   message, generator, files, repo, calls>>

\* _load_objects returns and _load_events loads events/base_event.json, if it
\* exists, outside any try block: an exception leaves _load_events and load()
LoadBaseEvent ==
    /\ loader.pc = "objects"
    /\ loader.todo = {}
    /\ IF repo.base_event = "bad"
       THEN /\ loader' = [loader EXCEPT !.pc = "raised"]
            /\ error' = "JSONDecodeError"
       ELSE /\ loader' = [loader EXCEPT !.pc = "events",
                                        !.todo = DOMAIN repo.events,
                                        !.events = IF repo.base_event = "ok"
                                                   THEN <<"base_event">> ELSE <<>>]
            /\ error' = error
    /\ UNCHANGED <<schema, phase, walk, resolved, analyzed, config, filtered, result,
                   message, generator, files, repo, calls>>

\* one iteration of the loop of _load_events_from_category
LoadEventFile(event_name) ==
    /\ loader.pc = "events"
    /\ event_name \in loader.todo
    /\ loader' = IF repo.events[event_name] = "ok"
                 THEN [loader EXCEPT !.todo = @ \ {event_name},
                                     !.events = Append(@, event_name)]
                 ELSE [loader EXCEPT !.todo = @ \ {event_name},
                                     !.warnings = @ + 1]
    /\ UNCHANGED <<schema, phase, walk, resolved, analyzed, config, filtered, result, error,
                   message, generator, files, repo, calls>>

\* load() returns the OcsfSchema
LoadReturn ==
    /\ loader.pc = "events"
    /\ loader.todo = {}
    /\ loader' = [loader EXCEPT !.pc = "returned"]
    /\ schema' = [objects |-> [n \in ToSet(loader.objects) |-> RepoSource.objects[n]],
                  objOrder |-> loader.objects,
                  events |-> [n \in ToSet(loader.events) |-> RepoSource.events[n]],
                  evOrder |-> loader.events,
                  dictionary |-> RepoSource.dictionary]
    /\ phase' = "loaded"
    /\ UNCHANGED <<walk, resolved, analyzed, config, filtered, result, error,
                   message, generator, files, repo, calls>>

LoadInit ==
    /\ schema = NoSchema
    /\ phase = "loading"
    /\ walk = Idle
    /\ resolved = NotFound
    /\ analyzed = EmptyAnalyzed
    /\ config = NoConfig
    /\ filtered = EmptyAnalyzed
    /\ result = EmptyResult
    /\ error = None
    /\ message = None
    /\ generator = NoGenerator
    /\ files = <<>>
    /\ repo \in Repos
    /\ loader = LoaderIdle
    /\ calls = NoCalls

LoadNext ==
    \/ LoadObjects
    \/ \E obj_name \in ObjNames : LoadObjectFile(obj_name)
    \/ LoadBaseEvent
    \/ \E event_name \in EvNames : LoadEventFile(event_name)
    \/ LoadReturn

\* SchemaLoader(path).load() alone, over every repository directory
LoadSpec == LoadInit /\ [][LoadNext]_vars

----------------------------------------------------------------------------
(* Attribute definitions: from the JSON of an entity file to the resolved attribute *)

\* a key the JSON object does not have
Omitted == None

\* one entry of _parse_attributes: the OcsfAttribute of a dict definition, or
\* of a bare reference
parse_attribute(attr_name, attr_data) ==
    IF attr_data.kind = "dict"
    THEN LET suffix == attr_data.type # Omitted /\ EndsWith(attr_data.type, "[]")
             attr_type == IF suffix THEN SubSeq(attr_data.type, 1, Len(attr_data.type) - 2)
                          ELSE attr_data.type
         IN  [name |-> attr_name,
              caption |-> Or(attr_data.caption, attr_name),
              description |-> attr_data.description,
              type |-> attr_type,
              requirement |-> Or(attr_data.requirement, "optional"),
              is_array |-> suffix \/ attr_data.is_array = "true",
              object_type |-> attr_data.object_type]
    ELSE [name |-> attr_name, caption |-> attr_name, description |-> None, type |-> None,
          requirement |-> "optional", is_array |-> FALSE, object_type |-> None]

\* SchemaLoader._parse_attributes: $include directives are skipped
parse_attributes(attrs_data) ==
    [n \in {m \in DOMAIN attrs_data : Char(m, 1) # "$"} |-> parse_attribute(n, attrs_data[n])]

\* the JSON values an attribute definition can have in an entity file
RawAttributes ==
    [kind : {"dict"}, type : {Omitted, "string_t", "b[]"}, is_array : {Omitted, "true", "false"},
     caption : {Omitted, "x", "Local"}, description : {Omitted, "local"},
     requirement : {Omitted}, object_type : {Omitted}]
    \cup {[kind |-> "other", type |-> Omitted, is_array |-> Omitted, caption |-> Omitted,
           description |-> Omitted, requirement |-> Omitted, object_type |-> Omitted]}

\* the entries dictionary.json can have for the attribute
DictionaryEntries ==
    {[type |-> "integer_t", is_array |-> TRUE, object_type |-> None,
      caption |-> "Dict", description |-> "dict"],
     [type |-> "c", is_array |-> FALSE, object_type |-> None,
      caption |-> None, description |-> None]}

\* repositories with one object, a, whose file defines attribute x and has an
\* $include directive
AttributeRepos ==
    {[objects |-> [n \in {"a"} |->
                      [extends |-> None,
                       attributes |-> [m \in {"x", "$include"} |->
                                          IF m = "x" THEN raw
                                          ELSE [raw EXCEPT !.kind = "other"]]]],
      base_event |-> "absent",
      events |-> EmptyDict,
      dictionary |-> dictionary] :
        raw \in RawAttributes,
        dictionary \in {DictEmpty} \cup {[n \in {"x"} |-> e] : e \in DictionaryEntries}}

\* the OcsfSchema load() returns for a repository of AttributeRepos
LoadedSchema(dir) ==
    [objects |-> [n \in DOMAIN dir.objects |->
                     [extends |-> dir.objects[n].extends,
                      attributes |-> parse_attributes(dir.objects[n].attributes)]],
     objOrder |-> <<"a">>,
     events |-> EmptyDict,
     evOrder |-> <<>>,
     dictionary |-> dir.dictionary]

\* load() over a repository whose files are all well formed
LoadAttributes ==
    /\ phase = "loading"
    /\ loader.pc = "idle"
    /\ schema' = LoadedSchema(repo)
    /\ loader' = [loader EXCEPT !.pc = "returned", !.objects = <<"a">>]
    /\ phase' = "loaded"
    /\ UNCHANGED <<walk, resolved, analyzed, config, filtered, result, error,
                   message, generator, files, repo, calls>>

AttributeInit ==
    /\ schema = NoSchema
    /\ phase = "loading"
    /\ walk = Idle
    /\ resolved = NotFound
    /\ analyzed = EmptyAnalyzed
    /\ config = NoConfig
    /\ filtered = EmptyAnalyzed
    /\ result = EmptyResult
    /\ error = None
    /\ message = None
    /\ generator = NoGenerator
    /\ files = <<>>
    /\ repo \in AttributeRepos
    /\ loader = LoaderIdle
    /\ calls = NoCalls

AttributeNext ==
    \/ LoadAttributes
    \/ Analyze

\* load() and analyze() over every definition of one attribute
AttributeSpec == AttributeInit /\ [][AttributeNext]_vars

----------------------------------------------------------------------------
(* One SchemaAnalyzer used for several analyze() calls *)

\* a schema property that loads the repository at every access
SchemaReloaded(cached) == LoadedSchema(repo)

\* SchemaAnalyzer.schema: the raw schema is loaded at the first access and
\* kept in _schema; loader.pc is "idle" as long as _schema is None
SchemaProperty(cached) ==
    IF loader.pc = "idle" THEN LoadedSchema(repo) ELSE cached

\* SchemaAnalyzer.analyze(): the resolver is built over the schema property,
\* objects, events, trees, relationships and arrays are resolved anew
AnalyzeCall ==
    /\ phase \in {"loading", "analyzed", "edited"}
    /\ calls.analyze < MaxCalls
    /\ schema' = SchemaProperty(schema)
    /\ loader' = [loader EXCEPT !.pc = "returned", !.objects = schema'.objOrder]
    /\ analyzed' = analyze(schema')
    /\ resolved' = LastResolved(schema')
    /\ phase' = "analyzed"
    /\ calls' = [calls EXCEPT !.analyze = @ + 1]
    /\ UNCHANGED <<walk, config, filtered, result, error,
                   message, generator, files, repo>>

\* the file of object a is rewritten between two calls
EditSource(raw) ==
    /\ phase = "analyzed"
    /\ calls.analyze < MaxCalls
    /\ raw # repo.objects["a"].attributes["x"]
    /\ repo' = [repo EXCEPT !.objects["a"].attributes["x"] = raw]
    /\ phase' = "edited"
    /\ UNCHANGED <<schema, walk, resolved, analyzed, config, filtered, result, error,
                   message, generator, files, loader, calls>>

AnalyzerNext ==
    \/ AnalyzeCall
    \/ \E raw \in RawAttributes : EditSource(raw)

\* SchemaAnalyzer(path), then analyze() calls with edits of the repository
\* between them
AnalyzerSpec == AttributeInit /\ [][AnalyzerNext]_vars

----------------------------------------------------------------------------
(* Properties *)

\* filter() returned a FilterResult rather than raising
FilteredOk == phase = "filtered" /\ error = None

\* every tree the pipeline has produced, with the entity set it ranges over
ProducedTrees ==
    {<<analyzed.object_tree, DOMAIN analyzed.objects>>,
     <<analyzed.event_tree, DOMAIN analyzed.events>>}
    \cup (IF FilteredOk
          THEN {<<filtered.object_tree, DOMAIN filtered.objects>>,
                <<filtered.event_tree, DOMAIN filtered.events>>}
          ELSE {})

\* entity n has a parent in the tree, and that parent is one of the entities
HasParentIn(tree, ents, n) ==
    /\ n \in DOMAIN tree.parents
    /\ tree.parents[n] # None
    /\ tree.parents[n] \in ents

\* C1: in every inheritance tree, of the resolver and of the filter, an entity
\* whose parent is in the tree sits at a strictly larger index of
\* topological_order than that parent.
C1_TopologicalInvariant ==
    \A pair \in ProducedTrees :
        LET tree == pair[1]
            ents == pair[2]
        IN  \A n \in ents :
                HasParentIn(tree, ents, n) =>
                    /\ Contains(tree.topological_order, n)
                    /\ Contains(tree.topological_order, tree.parents[n])
                    /\ IndexOf(tree.topological_order, tree.parents[n])
                           < IndexOf(tree.topological_order, n)

\* C2 as written: every name in the inheritance chain of an object of the
\* filtered schema is an object of the filtered schema.
C2_FilterClosure ==
    FilteredOk =>
        \A o \in DOMAIN filtered.objects :
            ToSet(filtered.objects[o].inheritance_chain) \subseteq DOMAIN filtered.objects

\* C2, amended: every name in the inheritance chain of an object of the
\* filtered schema that is an object of the schema filter() was given is an
\* object of the filtered schema.
C2_FilterClosureOverKnownAncestors ==
    FilteredOk =>
        \A o \in DOMAIN filtered.objects :
            ToSet(filtered.objects[o].inheritance_chain) \cap DOMAIN analyzed.objects
                \subseteq DOMAIN filtered.objects

\* a filter at depth 0 whose root has two ancestors, both pulled in, and whose
\* chain goes on to a name that is no object of the schema
C2_Witness ==
    /\ FilteredOk
    /\ config.max_depth = 0
    /\ Cardinality(result.inheritance_additions) >= 2
    /\ LET chain == filtered.objects[config.core_object].inheritance_chain
       IN  /\ Len(chain) >= 4
           /\ ToSet(chain) \cap DOMAIN analyzed.objects \subseteq DOMAIN filtered.objects
           /\ ~(ToSet(chain) \subseteq DOMAIN analyzed.objects)

\* the objects an attribute dict refers to: object_type, else an ocsf_type
\* that is no scalar type
ReferencedBy(attrs) ==
    {IF attrs[n].object_type # None THEN attrs[n].object_type ELSE attrs[n].ocsf_type :
        n \in {m \in DOMAIN attrs :
                  \/ attrs[m].object_type # None
                  \/ (attrs[m].ocsf_type # None /\ is_object_type(attrs[m].ocsf_type))}}

\* C3: no object of the filtered schema keeps a reference to an object the
\* filter excluded.
C3_ReferentiallyClosed ==
    FilteredOk =>
        \A o \in DOMAIN filtered.objects :
            ReferencedBy(filtered.objects[o].all_attributes) \cap result.excluded_objects = {}

\* C4 as written: included_objects and excluded_objects are disjoint and
\* together make up the full object set.
C4_IncludedExcludedPartition ==
    FilteredOk =>
        /\ result.included_objects \cap result.excluded_objects = {}
        /\ result.included_objects \cup result.excluded_objects = DOMAIN analyzed.objects

\* C4, amended: included_objects and excluded_objects are disjoint and
\* together make up the full object set less inheritance_additions.
C4_IncludedExcludedLessAdditions ==
    FilteredOk =>
        /\ result.included_objects \cap result.excluded_objects = {}
        /\ result.included_objects \cup result.excluded_objects
               = DOMAIN analyzed.objects \ result.inheritance_additions

\* a filter that had to add an inheritance parent and also excluded an object
C4_Witness ==
    /\ FilteredOk
    /\ result.inheritance_additions # {}
    /\ result.excluded_objects # {}
    /\ result.included_objects \cup result.excluded_objects # DOMAIN analyzed.objects

\* C5: included_objects, inheritance_additions and excluded_objects are
\* pairwise disjoint and their union is the full object set.
C5_ThreeWayPartition ==
    FilteredOk =>
        /\ result.included_objects \cap result.inheritance_additions = {}
        /\ result.included_objects \cap result.excluded_objects = {}
        /\ result.inheritance_additions \cap result.excluded_objects = {}
        /\ result.included_objects \cup result.inheritance_additions \cup result.excluded_objects
               = DOMAIN analyzed.objects

\* a filter whose three sets each hold exactly one of the three objects
C5_Witness ==
    /\ FilteredOk
    /\ Cardinality(result.included_objects) = 1
    /\ Cardinality(result.inheritance_additions) = 1
    /\ Cardinality(result.excluded_objects) = 1

\* the chain starts with the entity itself and repeats no name
ChainWellFormed(name, chain) ==
    /\ chain # <<>>
    /\ chain[1] = name
    /\ NoDup(chain)

\* C6: resolve_object and resolve_event terminate on every schema, cyclic
\* extends links included: a chain walk that has started finishes, and the
\* chain, while it is built and once it is returned, starts with the entity
\* itself and repeats no name.
C6_ResolveTerminates ==
    /\ [](walk.pc # "idle" => ChainWellFormed(walk.name, walk.chain))
    /\ [](resolved.name # None => ChainWellFormed(resolved.name, resolved.inheritance_chain))
    /\ [](\A n \in DOMAIN analyzed.objects :
              ChainWellFormed(n, analyzed.objects[n].inheritance_chain))
    /\ [](\A n \in DOMAIN analyzed.events :
              ChainWellFormed(n, analyzed.events[n].inheritance_chain))
    /\ (walk.pc = "loop") ~> (walk.pc = "done")

\* a walk that came back to an entity already in its chain and stopped there
C6_Witness ==
    /\ walk.pc = "done"
    /\ Len(walk.chain) >= 2
    /\ LET ents == Entities(walk.kind)
           last == walk.chain[Len(walk.chain)]
       IN  /\ last \in DOMAIN ents
           /\ Contains(walk.chain, ents[last].extends)

\* the attribute names the ancestors of a chain define in the loaded schema
DefinedByAncestors(ents, chain) ==
    UNION {DOMAIN ents[chain[i]].attributes :
               i \in {j \in 2..Len(chain) : chain[j] \in DOMAIN ents}}

\* the override law for one resolved entity
OverrideLaw(ents, entity) ==
    \A n \in DOMAIN entity.own_attributes :
        /\ n \in DOMAIN entity.all_attributes
        /\ n \in DefinedByAncestors(ents, entity.inheritance_chain) =>
               /\ entity.all_attributes[n] = entity.own_attributes[n]
               /\ entity.all_attributes[n].is_inherited = FALSE
               /\ entity.all_attributes[n].source_object = entity.name

\* C7: in every resolved entity each own attribute is in all_attributes, and
\* an attribute name defined by the entity and by an ancestor maps to the
\* entity's own version, with is_inherited false.
C7_AttributeOverride ==
    /\ \A n \in DOMAIN analyzed.objects : OverrideLaw(schema.objects, analyzed.objects[n])
    /\ \A n \in DOMAIN analyzed.events : OverrideLaw(schema.events, analyzed.events[n])
    /\ resolved.name # None =>
           OverrideLaw(IF resolved.name \in ObjNames THEN schema.objects ELSE schema.events,
                       resolved)

\* a resolved object that defines an attribute an ancestor defines differently
C7_Witness ==
    /\ phase = "analyzed"
    /\ \E o \in DOMAIN analyzed.objects :
           \E n \in DOMAIN analyzed.objects[o].own_attributes :
               /\ n \in DOMAIN analyzed.objects[o].inherited_attributes
               /\ analyzed.objects[o].inherited_attributes[n].ocsf_type
                      # analyzed.objects[o].own_attributes[n].ocsf_type
               /\ analyzed.objects[o].all_attributes[n].source_object = o

\* C8: the topological_order of every tree is a permutation of exactly the
\* entity set of its schema.
C8_TopologicalPermutation ==
    \A pair \in ProducedTrees :
        /\ NoDup(pair[1].topological_order)
        /\ ToSet(pair[1].topological_order) = pair[2]

\* C9: the keys of object_depths are exactly included_objects, the root has
\* depth 0 and no depth exceeds max_depth.
C9_DepthBound ==
    FilteredOk =>
        /\ DOMAIN result.object_depths = result.included_objects
        /\ config.core_object \in DOMAIN result.object_depths
        /\ result.object_depths[config.core_object] = 0
        /\ \A o \in DOMAIN result.object_depths :
               result.object_depths[o] \in 0..config.max_depth

\* a traversal cut off at max_depth >= 1: an object at that depth refers to
\* an object the traversal never visited
C9_Witness ==
    /\ FilteredOk
    /\ config.max_depth >= 1
    /\ \E o \in DOMAIN result.object_depths :
           /\ result.object_depths[o] = config.max_depth
           /\ ReferencedBy(analyzed.objects[o].all_attributes) \cap result.excluded_objects # {}

\* the entities of an analyzed schema as <<resolved entity, is_event>>
EntitiesOf(an) ==
    {<<an.objects[n], FALSE>> : n \in DOMAIN an.objects}
    \cup {<<an.events[n], TRUE>> : n \in DOMAIN an.events}

\* neither column builder yields a column for attribute n of the entity: each
\* builder returns one column per own attribute that is no array, named after
\* such an attribute
NoColumnFor(entity, is_event, n) ==
    LET scalars == {m \in DOMAIN entity.own_attributes : ~entity.own_attributes[m].is_array}
        analyzer_columns == get_entity_columns(schema, entity.name, is_event)
    IN  /\ n \notin scalars
        /\ Len(analyzer_columns) = Cardinality(scalars)
        /\ \A i \in 1..Len(analyzer_columns) :
               \E m \in scalars : analyzer_columns[i].name \in {m, m \o "_id"}
        /\ \A naming \in NamingConfigs :
               LET generator_columns == build_columns(naming, entity.own_attributes)
               IN  /\ Len(generator_columns) = Cardinality(scalars)
                   /\ \A i \in 1..Len(generator_columns) :
                          \E m \in scalars :
                              generator_columns[i].name \in {safe_column_name(column_name(m)),
                                                            foreign_key_column(m)}

\* the number of ArrayAttributeInfo entries for (entity, attribute)
InfoCount(an, entity_name, n) ==
    Cardinality({i \in 1..Len(an.array_attributes) :
                    /\ an.array_attributes[i].parent_entity = entity_name
                    /\ an.array_attributes[i].attribute_name = n})

\* the array attribute holds scalars, or objects of the filtered schema
ElementKept(attr) ==
    LET element_type == Or(attr.object_type, Or(attr.ocsf_type, "string_t"))
    IN  ~is_object_type(element_type) \/ element_type \in DOMAIN filtered.objects

\* the array attributes of an entity
ArrayNames(entity) ==
    {n \in DOMAIN entity.all_attributes : entity.all_attributes[n].is_array}

\* C10 as written: in the analyzed schema and in the filtered schema an
\* is_array attribute yields no column and has exactly one ArrayAttributeInfo.
C10_ArraysNeverColumns ==
    /\ \A pair \in EntitiesOf(analyzed) : \A n \in ArrayNames(pair[1]) :
           /\ NoColumnFor(pair[1], pair[2], n)
           /\ InfoCount(analyzed, pair[1].name, n) = 1
    /\ FilteredOk =>
           \A pair \in EntitiesOf(filtered) : \A n \in ArrayNames(pair[1]) :
               /\ NoColumnFor(pair[1], pair[2], n)
               /\ InfoCount(filtered, pair[1].name, n) = 1

\* C10, amended: an is_array attribute yields no column in any schema; it has
\* exactly one ArrayAttributeInfo in the schema analyze() returns; in a
\* filtered schema it has exactly one when its elements are scalars or objects
\* of the filtered schema, and none otherwise.
C10_ArraysNeverColumnsFiltered ==
    /\ \A pair \in EntitiesOf(analyzed) : \A n \in ArrayNames(pair[1]) :
           /\ NoColumnFor(pair[1], pair[2], n)
           /\ InfoCount(analyzed, pair[1].name, n) = 1
    /\ FilteredOk =>
           \A pair \in EntitiesOf(filtered) : \A n \in ArrayNames(pair[1]) :
               /\ NoColumnFor(pair[1], pair[2], n)
               /\ InfoCount(filtered, pair[1].name, n)
                      = IF ElementKept(pair[1].all_attributes[n]) THEN 1 ELSE 0

\* a filtered schema with an array attribute that kept its ArrayAttributeInfo,
\* one that lost it, and an object that inherits an array attribute
C10_Witness ==
    /\ FilteredOk
    /\ \E pair \in EntitiesOf(filtered) : \E n \in ArrayNames(pair[1]) :
           InfoCount(filtered, pair[1].name, n) = 1
    /\ \E pair \in EntitiesOf(filtered) : \E n \in ArrayNames(pair[1]) :
           InfoCount(filtered, pair[1].name, n) = 0
    /\ \E pair \in EntitiesOf(filtered) : \E n \in ArrayNames(pair[1]) :
           pair[1].all_attributes[n].is_inherited

\* generate_all() has returned
Generated == phase = "generated"

\* the schema the file list was generated from
GenSchema == IF generator.given THEN generator.analyzed_schema ELSE analyzed

\* the positions of the entity model files in the file list
ModelFiles == {i \in 1..Len(files) : files[i].file_type \in {"object_model", "event_model"}}

\* the topological order the files of one kind are generated from
OrderOf(file_type) ==
    IF file_type = "object_model" THEN GenSchema.object_tree.topological_order
    ELSE GenSchema.event_tree.topological_order

\* C11: in the file list of generate_all every object model file precedes every
\* event model file, the files of one kind follow that kind's topological order,
\* and the file of an entity that extends a parent comes after the file
\* generated for that parent.
C11_GenerationOrder ==
    Generated =>
        /\ \A i, j \in ModelFiles :
               files[i].file_type = "object_model" /\ files[j].file_type = "event_model" => i < j
        /\ \A i, j \in ModelFiles :
               files[i].file_type = files[j].file_type /\ i < j =>
                   IndexOf(OrderOf(files[i].file_type), files[i].entity_name)
                       < IndexOf(OrderOf(files[j].file_type), files[j].entity_name)
        /\ \A i \in ModelFiles :
               files[i].context.extends # None =>
                   \E j \in ModelFiles :
                       /\ j < i
                       /\ files[j].file_type = files[i].file_type
                       /\ files[j].entity_name = files[i].context.extends

\* the model files of entities with zero own columns and no parent
BareFiles == {i \in ModelFiles : files[i].context.columns = <<>> /\ files[i].context.extends = None}

\* C12 as written: the file of an entity with zero own columns and no parent
\* imports no SQLAlchemy type and no dialect type.
C12_BareEntityImportsNothing ==
    Generated =>
        \A i \in BareFiles :
            /\ files[i].header.sqlalchemy = {}
            /\ files[i].header.dialect = <<>>

\* C12, amended: the file of an entity with zero own columns and no parent
\* imports no dialect type, and no SQLAlchemy type unless the entity has
\* children in its inheritance tree, in which case it imports exactly String.
C12_BareEntityImportsOnlyDiscriminator ==
    Generated =>
        \A i \in BareFiles :
            /\ files[i].header.dialect = <<>>
            /\ files[i].header.sqlalchemy =
                   IF files[i].entity_name \in DOMAIN
                          (IF files[i].file_type = "object_model"
                           THEN GenSchema.object_tree.children
                           ELSE GenSchema.event_tree.children)
                   THEN {"String"}
                   ELSE {}

\* a file list with a bare entity that has children and a bare entity that has none
C12_Witness ==
    /\ Generated
    /\ \E i \in BareFiles : files[i].header.sqlalchemy = {"String"}
    /\ \E i \in BareFiles : files[i].header.sqlalchemy = {}

\* the resolved entity a model file was generated for
EntityOf(i) ==
    IF files[i].file_type = "object_model" THEN GenSchema.objects[files[i].entity_name]
    ELSE GenSchema.events[files[i].entity_name]

\* the SQLAlchemy types of the own scalar columns of an entity: own attributes
\* that are no array and no object reference
OwnScalarTypes(entity) ==
    {SqlAlchemyType(Or(entity.own_attributes[n].ocsf_type, "string_t")) :
        n \in {m \in DOMAIN entity.own_attributes :
                  /\ ~entity.own_attributes[m].is_array
                  /\ entity.own_attributes[m].object_type = None
                  /\ ~(entity.own_attributes[m].ocsf_type # None
                         /\ is_object_type(entity.own_attributes[m].ocsf_type))}}

\* C13: the file of an entity imports INET (CIDR) if and only if one of the
\* entity's own scalar columns maps to INET (CIDR).
C13_DialectImportsExact ==
    Generated =>
        \A i \in ModelFiles : \A d \in {"INET", "CIDR"} :
            Contains(files[i].header.dialect, d) <=> d \in OwnScalarTypes(EntityOf(i))

\* a file list with a file importing only INET, one importing only CIDR (or
\* both), and an entity whose only network-typed attributes are arrays or
\* inherited and whose file imports no dialect type
C13_Witness ==
    /\ Generated
    /\ \E i \in ModelFiles : files[i].header.dialect = <<"INET">>
    /\ \E i \in ModelFiles : Contains(files[i].header.dialect, "CIDR")
    /\ \E i \in ModelFiles :
           /\ files[i].header.dialect = <<>>
           /\ \E n \in DOMAIN EntityOf(i).all_attributes :
                  EntityOf(i).all_attributes[n].ocsf_type \in {"ip_t", "subnet_t"}

\* t occurs in s
HasSubstring(s, t) == \E i \in 1..(Len(s) - Len(t) + 1) : SubSeq(s, i, i + Len(t) - 1) = t

\* C14: filter() with a core_object that is no object of the schema raises an
\* error whose message names the root and lists the first sorted object names;
\* no filtered schema and no FilterResult come back, and the analyzed schema is
\* what analyze() returned.
C14_MissingRootFails ==
    (phase = "filtered" /\ config.core_object \notin DOMAIN analyzed.objects) =>
        /\ error = "ValueError"
        /\ HasSubstring(message, "'" \o config.core_object \o "'")
        /\ HasSubstring(message, "include: " \o Join(AvailableSample(analyzed), ", ") \o "...")
        /\ ToSet(AvailableSample(analyzed)) \subseteq DOMAIN analyzed.objects
        /\ Len(AvailableSample(analyzed)) <= SampleSize
        /\ filtered = EmptyAnalyzed
        /\ result = EmptyResult
        /\ analyzed = analyze(schema)

\* a filter() call with a root that is no object, over a schema with objects
C14_Witness ==
    /\ phase = "filtered"
    /\ config.core_object = Ghost
    /\ error = "ValueError"
    /\ Len(AvailableSample(analyzed)) >= 2

\* C15: with include_events set, included_events is exactly the set of events
\* with an attribute, own or inherited, array or not, whose target is an object
\* of the filtered schema.
C15_DirectlyReferencingEvents ==
    (FilteredOk /\ config.include_events) =>
        result.included_events =
            {ev \in DOMAIN analyzed.events :
                ReferencedBy(analyzed.events[ev].all_attributes) \cap DOMAIN filtered.objects # {}}

\* the relationship connects an entity of the filtered schema to an object of it
BothEndsIncluded(rel) ==
    /\ rel.source_entity \in DOMAIN filtered.objects \cup DOMAIN filtered.events
    /\ rel.target_entity \in DOMAIN filtered.objects

\* C16: the relationships of the filtered schema are exactly the relationships
\* of the original schema whose source is an included object or event and whose
\* target is an included object; none has an excluded end.
C16_RelationshipsFiltered ==
    FilteredOk =>
        /\ filtered.relationships = SelectSeq(analyzed.relationships, BothEndsIncluded)
        /\ \A i \in 1..Len(filtered.relationships) :
               /\ filtered.relationships[i].source_entity \notin result.excluded_objects
               /\ filtered.relationships[i].target_entity \notin result.excluded_objects

\* a filter that kept a relationship of an object and one of an event, and
\* dropped one whose source is included and whose target is excluded
C16_Witness ==
    /\ FilteredOk
    /\ \E i \in 1..Len(filtered.relationships) :
           filtered.relationships[i].source_entity \in DOMAIN filtered.objects
    /\ \E i \in 1..Len(filtered.relationships) :
           filtered.relationships[i].source_entity \in DOMAIN filtered.events
    /\ \E i \in 1..Len(analyzed.relationships) :
           /\ analyzed.relationships[i].source_entity \in DOMAIN filtered.objects
           /\ analyzed.relationships[i].target_entity \in result.excluded_objects

\* the array's parent is in the filtered schema and, when the array holds
\* objects, so is its element type
ArrayKept(arr) ==
    /\ arr.parent_entity \in DOMAIN filtered.objects \cup DOMAIN filtered.events
    /\ (arr.is_primitive \/ arr.element_type \in DOMAIN filtered.objects)

\* C17: an ArrayAttributeInfo of the original schema is in the filtered schema
\* if and only if its parent is included and, when it is object-valued, its
\* element type is an included object.
C17_ArraysFiltered ==
    FilteredOk =>
        /\ filtered.array_attributes = SelectSeq(analyzed.array_attributes, ArrayKept)
        /\ \A i \in 1..Len(analyzed.array_attributes) :
               LET arr == analyzed.array_attributes[i]
               IN  (arr.is_primitive
                      /\ arr.parent_entity \in DOMAIN filtered.objects \cup DOMAIN filtered.events)
                       => Contains(filtered.array_attributes, arr)

\* a filter that kept a primitive array, kept an object array, and dropped an
\* object array of an included parent
C17_Witness ==
    /\ FilteredOk
    /\ \E i \in 1..Len(filtered.array_attributes) : filtered.array_attributes[i].is_primitive
    /\ \E i \in 1..Len(filtered.array_attributes) : ~filtered.array_attributes[i].is_primitive
    /\ \E i \in 1..Len(analyzed.array_attributes) :
           /\ analyzed.array_attributes[i].parent_entity \in DOMAIN filtered.objects
           /\ ~Contains(filtered.array_attributes, analyzed.array_attributes[i])

\* the well-formed files of the repository
WellFormed(dir) == {n \in DOMAIN dir : dir[n] = "ok"}

\* C18: load() returns whichever single entity file is malformed, an object
\* file, a category event file or events/base_event.json: no error leaves
\* load(), and the schema it returns holds every well-formed object and event.
C18_PartialLoadTolerated ==
    /\ loader.pc # "raised"
    /\ loader.pc = "returned" =>
           /\ DOMAIN schema.objects = WellFormed(repo.objects)
           /\ DOMAIN schema.events \ {"base_event"} = WellFormed(repo.events)
           /\ repo.base_event = "ok" => "base_event" \in DOMAIN schema.events

\* C19: no two files of the list generate_all returns have the same path.
C19_PathsUnique ==
    Generated => \A i, j \in 1..Len(files) : i # j => files[i].path # files[j].path

\* the ArrayAttributeInfo entries stored for a relationship of an entity
InfosFor(entity_name, rel) ==
    {k \in 1..Len(GenSchema.array_attributes) :
        /\ GenSchema.array_attributes[k].parent_entity = entity_name
        /\ relationship_name(GenSchema.array_attributes[k].attribute_name) = rel.name}

\* C20: for every many-valued object relationship of a generated entity, the
\* backing-table name in the entity's file is the association_table_name stored
\* in the ArrayAttributeInfo of the same (parent, attribute), and a
\* backing-table file of that name is generated.
C20_BackingNameRegenerated ==
    Generated =>
        \A i \in ModelFiles : \A r \in 1..Len(files[i].context.relationships) :
            LET rel == files[i].context.relationships[r]
            IN  rel.is_array =>
                    \A k \in InfosFor(files[i].entity_name, rel) :
                        /\ rel.association_table
                               = GenSchema.array_attributes[k].association_table_name
                        /\ \E j \in 1..Len(files) :
                               /\ files[j].file_type = "association"
                               /\ files[j].path = "relations/" \o rel.association_table \o ".py"

\* the resolved attributes of every entity of the analyzed schema, each with
\* the name of its entity
AnalyzedAttributes ==
    UNION {{<<p[1].name, p[1].all_attributes[n]>> : n \in DOMAIN p[1].all_attributes} :
              p \in EntitiesOf(analyzed)}

\* analyze() recorded a relationship for the attribute of the entity
HasRelationship(entity_name, attribute_name) ==
    \E i \in 1..Len(analyzed.relationships) :
        /\ analyzed.relationships[i].source_entity = entity_name
        /\ analyzed.relationships[i].attribute_name = attribute_name

ReportedColumns(entity, is_event, is_foreign_key) ==
    LET columns == get_entity_columns(schema, entity.name, is_event)
    IN  {columns[i].name : i \in {j \in 1..Len(columns) : columns[j].is_foreign_key = is_foreign_key}}

\* the own attributes of the entity that are no array
OwnNonArray(entity) == {n \in DOMAIN entity.own_attributes : ~entity.own_attributes[n].is_array}

\* C22: for every entity, the own attributes get_entity_columns reports as
\* foreign-key columns are exactly the non-array own attributes for which
\* analyze() records a relationship from that entity, and every other non-array
\* own attribute is reported as a plain column.
C22_ColumnsAgreeWithAnalyze ==
    phase = "analyzed" =>
        \A p \in EntitiesOf(analyzed) :
            /\ ReportedColumns(p[1], p[2], TRUE)
                   = {n \o "_id" : n \in {m \in OwnNonArray(p[1]) : HasRelationship(p[1].name, m)}}
            /\ ReportedColumns(p[1], p[2], FALSE)
                   = {m \in OwnNonArray(p[1]) : ~HasRelationship(p[1].name, m)}

\* C23: generate_all returns no file list for a schema in which an entity has
\* an own object-reference attribute whose target is no entity of the schema
\* being generated: no returned file has a relationship to, or an import of, a
\* missing target.
C23_DanglingTargetFatal ==
    Generated =>
        \A i \in ModelFiles : \A r \in 1..Len(files[i].context.relationships) :
            files[i].context.relationships[r].target_entity
                \in DOMAIN GenSchema.objects \cup DOMAIN GenSchema.events

\* the object-reference edges leaving an object of the analyzed schema: the
\* known objects its attributes, own or inherited, resolve to
EdgesFrom(o) ==
    LET all == analyzed.objects[o].all_attributes
    IN  {Or(all[n].object_type, all[n].ocsf_type) : n \in DOMAIN all} \cap DOMAIN analyzed.objects

RECURSIVE Within(_, _)
\* the objects at most k edges away from the root
Within(root, k) ==
    IF k = 0 THEN {root}
    ELSE LET near == Within(root, k - 1)
         IN  near \cup UNION {EdgesFrom(o) : o \in near}

\* the length of a shortest path from the root to an object within reach
Distance(root, o) == CHOOSE k \in 0..Cardinality(DOMAIN analyzed.objects) :
                         o \in Within(root, k) /\ \A j \in 0..(k - 1) : o \notin Within(root, j)

\* C24: included_objects is exactly the set of objects reachable from the root
\* by at most max_depth object-reference edges, and object_depths gives each
\* the length of a shortest such path, also with cycles and self-references.
C24_BoundedReachability ==
    FilteredOk =>
        /\ result.included_objects = Within(config.core_object, config.max_depth)
        /\ DOMAIN result.object_depths = result.included_objects
        /\ \A o \in result.included_objects :
               result.object_depths[o] = Distance(config.core_object, o)

\* a traversal that reached an object two edges away in a graph where an
\* included object refers back to the root or to itself, and left an object out
C24_Witness ==
    /\ FilteredOk
    /\ \E o \in result.included_objects : result.object_depths[o] = 2
    /\ \E o \in result.included_objects :
           EdgesFrom(o) \cap {o, config.core_object} # {}
    /\ \E o \in result.included_objects : result.object_depths[o] = 1
    /\ config.max_depth = 2

\* the own non-array attributes of an entity, in dict order
OwnNonArraySeq(entity) ==
    SelectSeq(AttrKeys(entity.own_attributes), LAMBDA n : ~entity.own_attributes[n].is_array)

\* the column list of file i has one column per own non-array attribute: a
\* foreign key (snake-cased attribute name plus "_id", Integer, nullable unless
\* required) for the attributes that satisfy candidate, a plain column for the
\* others
ColumnsFollow(i, candidate(_)) ==
    LET entity == EntityOf(i)
        keys == OwnNonArraySeq(entity)
        columns == files[i].context.columns
    IN  /\ Len(columns) = Len(keys)
        /\ \A k \in 1..Len(keys) :
               LET attr == entity.own_attributes[keys[k]]
               IN  /\ columns[k].is_foreign_key = candidate(attr)
                   /\ columns[k].nullable = (attr.requirement # "required")
                   /\ candidate(attr) =>
                          /\ columns[k].name = to_snake_case(keys[k]) \o "_id"
                          /\ columns[k].sqlalchemy_type = "Integer"
                   /\ ~candidate(attr) =>
                          /\ columns[k].name = safe_column_name(to_snake_case(keys[k]))
                          /\ columns[k].sqlalchemy_type
                                 = get_sqlalchemy_type(Or(attr.ocsf_type, "string_t"))

\* an explicit target, or a type name outside the scalar vocabulary
OutsideVocabulary(attr) ==
    attr.object_type # None \/ (attr.ocsf_type # None /\ attr.ocsf_type \notin TYPE_MAPPINGS)

\* an explicit target, or a type name that does not end in "_t"
NoScalarSuffix(attr) ==
    attr.object_type # None \/ (attr.ocsf_type # None /\ ~EndsWithT(attr.ocsf_type))

C26_ParentsWithinEntitySet ==
    \A p \in ProducedTrees :
        LET tree == p[1]
            ents == p[2]
        IN  /\ \A n \in DOMAIN tree.parents : tree.parents[n] # None => tree.parents[n] \in ents
            /\ DOMAIN tree.children \subseteq ents
            /\ ToSet(tree.roots)
                   = {n \in ents : n \notin DOMAIN tree.parents \/ tree.parents[n] \notin ents}

\* the positions of the proper ancestors in the chain that define attribute n
DefiningAncestors(ents, chain, n) ==
    {k \in 2..Len(chain) : chain[k] \in DOMAIN ents /\ n \in DOMAIN ents[chain[k]].attributes}

\* the name of the nearest proper ancestor that defines attribute n
NearestDefining(ents, chain, n) ==
    chain[CHOOSE k \in DefiningAncestors(ents, chain, n) :
              \A j \in DefiningAncestors(ents, chain, n) : k <= j]

\* inherited_attributes and own_attributes of one resolved entity
InheritanceLaw(ents, entity) ==
    /\ DOMAIN entity.inherited_attributes = DefinedByAncestors(ents, entity.inheritance_chain)
    /\ \A n \in DOMAIN entity.inherited_attributes :
           LET ancestor == NearestDefining(ents, entity.inheritance_chain, n)
               defined == ents[ancestor].attributes[n]
               attr == entity.inherited_attributes[n]
           IN  /\ attr.is_inherited = TRUE
               /\ attr.source_object = ancestor
               /\ ancestor # entity.name
               /\ attr.name = n
               /\ attr.requirement = defined.requirement
               /\ defined.type # None => attr.ocsf_type = defined.type
               /\ defined.object_type # None => attr.object_type = defined.object_type
               /\ defined.is_array => attr.is_array
    /\ DOMAIN entity.own_attributes = DOMAIN ents[entity.name].attributes
    /\ \A n \in DOMAIN entity.own_attributes :
           /\ entity.own_attributes[n].is_inherited = FALSE
           /\ entity.own_attributes[n].source_object = entity.name

\* C27: for every resolved entity, inherited_attributes holds exactly the
\* attribute names a proper ancestor of its chain defines, each in the version
\* of the nearest such ancestor, marked inherited and stamped with that
\* ancestor's name; own attributes are not inherited and carry the entity's name.
C27_InheritedFromNearestAncestor ==
    /\ \A n \in DOMAIN analyzed.objects : InheritanceLaw(schema.objects, analyzed.objects[n])
    /\ \A n \in DOMAIN analyzed.events : InheritanceLaw(schema.events, analyzed.events[n])
    /\ resolved.name # None =>
           InheritanceLaw(IF resolved.name \in ObjNames THEN schema.objects ELSE schema.events,
                          resolved)

\* a resolved object that inherits an attribute two of its ancestors define
\* with different types
C27_Witness ==
    /\ phase = "analyzed"
    /\ \E o \in DOMAIN analyzed.objects :
           \E n \in DOMAIN analyzed.objects[o].inherited_attributes :
               LET chain == analyzed.objects[o].inheritance_chain
                   defining == DefiningAncestors(schema.objects, chain, n)
               IN  /\ Cardinality(defining) >= 2
                   /\ \E j, k \in defining :
                          schema.objects[chain[j]].attributes[n].type
                              # schema.objects[chain[k]].attributes[n].type
                   /\ n \notin DOMAIN analyzed.objects[o].own_attributes

\* C28: filter() leaves the AnalyzedSchema of the ObjectFilter as analyze()
\* returned it, and every call, whatever calls were made before it, returns
\* what a filter over the original schema returns for the same configuration.
C28_FilterLeavesSchema ==
    phase = "filtered" =>
        /\ analyzed = analyze(schema)
        /\ error # None => config.core_object \notin DOMAIN analyze(schema).objects
        /\ error = None =>
               \E ord \in Perms(ObjNames), evOrd \in Perms(EvNames) :
                   FilterBody(analyze(schema), config, ord, evOrd) = <<filtered, result>>

\* a later call on the same ObjectFilter that returned a schema with an object
\* fewer than the original and an object more than its root
C28_Witness ==
    /\ FilteredOk
    /\ calls.filter >= 2
    /\ DOMAIN filtered.objects # DOMAIN analyzed.objects
    /\ Cardinality(DOMAIN filtered.objects) >= 2

\* the definition of attribute x in the file of object a, and its dictionary entry
LocalDefinition == repo.objects["a"].attributes["x"]

DictionaryEntry == DictAttr(repo.dictionary, "x")

\* the local definition says whether the attribute is an array: through the
\* is_array key or through the [] suffix of its type
SuppliesArray(d) == d.is_array # Omitted \/ (d.type # Omitted /\ EndsWith(d.type, "[]"))

\* C29: the resolved type, array flag, caption and description of an attribute
\* are the local definition's whenever it supplies them (a caption: one other
\* than the bare name), and the dictionary entry's only when the local
\* definition omits the field.
C29_LocalValueWins ==
    (phase = "analyzed" /\ repo # NoRepo /\ LocalDefinition.kind = "dict") =>
        LET d == LocalDefinition
            e == DictionaryEntry
            r == analyzed.objects["a"].all_attributes["x"]
        IN  /\ r.ocsf_type = IF d.type # Omitted
                             THEN (IF EndsWith(d.type, "[]")
                                   THEN SubSeq(d.type, 1, Len(d.type) - 2) ELSE d.type)
                             ELSE e.type
            /\ r.is_array = IF SuppliesArray(d)
                            THEN (d.is_array = "true"
                                    \/ (d.type # Omitted /\ EndsWith(d.type, "[]")))
                            ELSE e.is_array
            /\ r.caption = IF d.caption \notin {Omitted, "x"} THEN d.caption
                           ELSE Or(e.caption, "x")
            /\ r.description = IF d.description # Omitted THEN d.description
                               ELSE e.description

\* an analyze() call returns
AnalyzeReturns == calls'.analyze = calls.analyze + 1

\* C30 as stated: every analyze() call derives its result from the schema
\* source as it is at the call, reusing nothing loaded by an earlier call.
C30_RederivedFromSource ==
    (phase = "analyzed" /\ calls.analyze >= 1) => analyzed = analyze(LoadedSchema(repo))

\* C30: the raw schema is loaded from the source by the first analyze() call
\* and reused by every later call on the same SchemaAnalyzer, whatever happened
\* to the source in between; each call resolves objects, events, trees,
\* relationships and array attributes anew from that raw schema, so every later
\* call returns a result equal to the first call's.
C30_RederivedFromLoadedSchema ==
    [][AnalyzeReturns =>
          /\ analyzed' = analyze(schema')
          /\ loader.pc = "idle" => schema' = LoadedSchema(repo)
          /\ loader.pc = "returned" => (schema' = schema /\ analyzed' = analyzed)]_vars

\* a second analyze() call has returned after an edit of the source that
\* changes what a fresh analysis gives
C30_Witness ==
    /\ phase = "analyzed"
    /\ calls.analyze >= 2
    /\ schema # LoadedSchema(repo)
    /\ analyzed # analyze(LoadedSchema(repo))

====
